---- MODULE Spec2Model ----
(***************************************************************************)
(* Model of the resilient transport layer of irDataClient                  *)
(* (src/src/iracingdataapi/client.py): the backoff calculator, the login   *)
(* handshake (_login), the retrying GET (_robust_get), the resource        *)
(* resolver (_get_resource) and the chunk aggregator (_get_chunks).        *)
(*                                                                         *)
(* A client instance has one shared flag, authenticated.  Every call       *)
(* running on the client (a _robust_get or a direct _login) has its own    *)
(* locals, kept in call[p].  A step of the model is one blocking           *)
(* operation of the code (a POST, a GET, a sleep) together with the code   *)
(* that runs up to the next blocking operation.                            *)
(* Durations are in milliseconds.                                          *)
(***************************************************************************)
EXTENDS Integers, Sequences, FiniteSets, TLC

(* ---------------- bounds of the model ---------------- *)

\* largest value of the retries argument passed to _robust_get / _login
MaxRetries == 3
\* largest number of file names in a chunk manifest
MaxChunks == 2
\* largest attempt index given to _calculate_backoff when it is called on
\* its own
MaxAttemptIndex == 7
\* largest number of objects given to _add_assets
MaxObjects == 3
\* largest number of characters of a text given to _parse_csv_response
MaxText == 5
\* largest number of characters of a username given to _encode_password
MaxName == 2

(* ---------------- program constants ---------------- *)

\* def _login(self, retries: int = 3)
LoginDefaultRetries == 3
\* def _robust_get(..., retries: int = 3, ...)
GetDefaultRetries == 3
\* timedelta(milliseconds=500)
PadMs == 500
\* max(delta.total_seconds(), 1.0)
MinWaitMs == 1000
\* min(2 ** attempt + random.uniform(0, 1), 60)
MaxWaitMs == 60000

\* the calls that may run on one client instance
Procs == {1, 2}

(* ---------------- the environment: what the server may answer ---------------- *)

\* r.headers.get("x-ratelimit-reset"): absent (None) or a text of decimal digits
NoHeader == [present |-> FALSE, text |-> <<>>]
Header(t) == [present |-> TRUE, text |-> t]
ResetHeaders == {NoHeader, Header(<<>>), Header(<<9>>), Header(<<1, 2>>),
                 Header(<<9, 9>>)}

\* r.headers.get("x-ratelimit-remaining") and r.headers.get("x-ratelimit-limit")
NoRate == [remaining |-> NoHeader, limit |-> NoHeader]
RateHeaders == {NoRate, [remaining |-> Header(<<0>>), limit |-> Header(<<1, 0>>)]}

\* datetime.now(), as milliseconds since the epoch
Nows == {10200, 11800}

\* random.uniform(0, 1), in milliseconds
Jitters == {0, 400, 1000}

\* the outcome of one HTTP exchange: an exception of requests, or a status
St(s) == [exc |-> "none", status |-> s]
Ex(e) == [exc |-> e, status |-> 0]
Exceptions == {"Timeout", "ConnectionError"}
OtherStatuses == {204, 500}
GetStatuses == {200, 401, 403, 429} \cup OtherStatuses
PostStatuses == {200, 429, 401, 500}
\* response_data.get("authcode"): missing, an empty (falsy) value, a code
AuthCodes == {"missing", "empty", "code"}

\* the x-ratelimit-reset header of an outcome as far as the code uses it:
\* an exception carries no response, and the header of a response is used
\* on a 429 only
HeadersUsed(r) == IF r = St(429) THEN ResetHeaders ELSE {NoHeader}
\* the count headers of an outcome: an exception carries none
CountsRead(r) == IF r.exc # "none" THEN {NoRate} ELSE RateHeaders
\* the auth code of an outcome: r.json() is read on a 200 only
AuthCodesRead(r) == IF r = St(200) THEN AuthCodes ELSE {"missing"}

(* ---------------- pure helpers ---------------- *)

\* str.lower() on one character and on a text
LowerChar(ch) == IF ch = "I" THEN "i" ELSE ch
Lower(text) == [i \in DOMAIN text |-> LowerChar(text[i])]

Max(a, b) == IF a >= b THEN a ELSE b
Min(a, b) == IF a <= b THEN a ELSE b

RECURSIVE Pow2(_)
Pow2(n) == IF n = 0 THEN 1 ELSE 2 * Pow2(n - 1)

\* int(ratelimit_reset) for a text of decimal digits
RECURSIVE ParseInt(_)
ParseInt(t) ==
    IF t = <<>> THEN 0
    ELSE 10 * ParseInt(SubSeq(t, 1, Len(t) - 1)) + t[Len(t)]

\* truth value of an Optional[str]: None and "" are falsy
Truthy(h) == h.present /\ h.text # <<>>

\* variant of calculate_backoff: the 500 ms are not added
calculate_backoff_no_pad(attempt, ratelimit_reset, now, jitter) ==
    IF Truthy(ratelimit_reset)
    THEN Max(ParseInt(ratelimit_reset.text) * 1000 - now, MinWaitMs)
    ELSE Min(Pow2(attempt) * 1000 + jitter, MaxWaitMs)

\* variant of calculate_backoff: the wait grows by one second per attempt
calculate_backoff_linear(attempt, ratelimit_reset, now, jitter) ==
    IF Truthy(ratelimit_reset)
    THEN Max(ParseInt(ratelimit_reset.text) * 1000 - now + PadMs, MinWaitMs)
    ELSE Min((attempt + 1) * 1000 + jitter, MaxWaitMs)

\* _calculate_backoff(attempt, ratelimit_reset), with the clock reading and
\* the random draw it makes as explicit arguments; result in milliseconds
calculate_backoff(attempt, ratelimit_reset, now, jitter) ==
    IF Truthy(ratelimit_reset)
    THEN Max(ParseInt(ratelimit_reset.text) * 1000 - now + PadMs, MinWaitMs)
    ELSE Min(Pow2(attempt) * 1000 + jitter, MaxWaitMs)

\* variant of needs_login: _robust_get never logs in up front
needs_login_never(require_auth, is_authenticated) == FALSE

\* variant of needs_login: the authenticated flag is not consulted
needs_login_ignoring_flag(require_auth, is_authenticated) == require_auth

\* "if require_auth and not self.authenticated" at the entry of _robust_get
needs_login(require_auth, is_authenticated) == require_auth /\ ~is_authenticated

\* variant of robust_get_status: a 401 is always fatal, no re-login
robust_get_status_no_relogin(status, attempted_relogin) ==
    IF status = 401 THEN "raise_401"
    ELSE IF status = 403 THEN "raise_403"
    ELSE IF status = 429 THEN "backoff"
    ELSE IF status # 200 THEN "raise_non200"
    ELSE "return"

\* variant of robust_get_status: attempted_relogin is not consulted
robust_get_status_always_relogin(status, attempted_relogin) ==
    IF status = 401 THEN "relogin"
    ELSE IF status = 403 THEN "raise_403"
    ELSE IF status = 429 THEN "backoff"
    ELSE IF status # 200 THEN "raise_non200"
    ELSE "return"

\* variant of robust_get_status: a 403 is retried like a 429
robust_get_status_403_retried(status, attempted_relogin) ==
    IF status = 401
    THEN (IF ~attempted_relogin THEN "relogin" ELSE "raise_401")
    ELSE IF status = 403 \/ status = 429 THEN "backoff"
    ELSE IF status # 200 THEN "raise_non200"
    ELSE "return"

\* variant of robust_get_status: the 429 branch is missing
robust_get_status_no_429(status, attempted_relogin) ==
    IF status = 401
    THEN (IF ~attempted_relogin THEN "relogin" ELSE "raise_401")
    ELSE IF status = 403 THEN "raise_403"
    ELSE IF status # 200 THEN "raise_non200"
    ELSE "return"

\* variant of robust_get_status: only statuses from 400 up are errors
robust_get_status_2xx_ok(status, attempted_relogin) ==
    IF status = 401
    THEN (IF ~attempted_relogin THEN "relogin" ELSE "raise_401")
    ELSE IF status = 403 THEN "raise_403"
    ELSE IF status = 429 THEN "backoff"
    ELSE IF status >= 400 THEN "raise_non200"
    ELSE "return"

\* the if-chain of _robust_get on r.status_code
robust_get_status(status, attempted_relogin) ==
    IF status = 401
    THEN (IF ~attempted_relogin THEN "relogin" ELSE "raise_401")
    ELSE IF status = 403 THEN "raise_403"
    ELSE IF status = 429 THEN "backoff"
    ELSE IF status # 200 THEN "raise_non200"
    ELSE "return"

\* variant of login_status: the auth code of a 200 is not checked
login_status_no_authcode_check(status, authcode) ==
    IF status = 429 THEN "backoff"
    ELSE IF status = 200 THEN "success"
    ELSE "raise_http"

\* variant of login_status: every status but 200 is retried like a 429
login_status_errors_retried(status, authcode) ==
    IF status # 200 THEN "backoff"
    ELSE IF authcode = "code" THEN "success" ELSE "raise_auth_failure"

\* the if-chain of _login on r.status_code and the auth code of the body
login_status(status, authcode) ==
    IF status = 429 THEN "backoff"
    ELSE IF status = 200
    THEN (IF authcode = "code" THEN "success" ELSE "raise_auth_failure")
    ELSE "raise_http"

(* ---------------- state ---------------- *)

VARIABLES
    authenticated,   \* self.authenticated
    username,        \* self.username
    encoded_password, \* self.encoded_password
    call,            \* call[p]: the locals of the call p is running
    history          \* what is remembered of the calls that have ended

vars == <<authenticated, username, encoded_password, call, history>>

\* nothing has ended yet, no call has crossed another
NoHistory == [relogin_ended |-> FALSE, double_login |-> FALSE,
              reset_after_login |-> FALSE]

\* a _robust_get call with the locals c ends: relogin_ended tells whether the
\* _robust_get call that ended last had re-logged in after a 401
ended(c) ==
    IF c.op = "get"
    THEN [history EXCEPT !.relogin_ended = (c.n_relogin > 0)]
    ELSE history

\* a time.sleep(wait_time) in progress: the x-ratelimit-reset header of the
\* response that caused it, the arguments given to _calculate_backoff, the
\* clock reading and random draw it made, and the wait_time it returned
NoSleep == [active |-> FALSE, header |-> NoHeader, attempt |-> 0,
            reset |-> NoHeader, now |-> 0, jitter |-> 0, wait |-> 0]

\* _calculate_backoff reads the clock on its reset path only and draws a
\* random number on its exponential path only (0 stands for "not used")
ClockReads(ratelimit_reset) == IF Truthy(ratelimit_reset) THEN Nows ELSE {0}
RandomDraws(ratelimit_reset) == IF Truthy(ratelimit_reset) THEN {0} ELSE Jitters

\* variant of backoff_sleep: the wait is computed but no sleep is made
backoff_sleep_not_taken(header, attempt, ratelimit_reset, now, jitter) ==
    [active |-> FALSE, header |-> header, attempt |-> attempt,
     reset |-> ratelimit_reset, now |-> now, jitter |-> jitter,
     wait |-> 0]

\* variant of backoff_sleep: the reset header is not handed on
backoff_sleep_ignoring_reset(header, attempt, ratelimit_reset, now, jitter) ==
    [active |-> TRUE, header |-> header, attempt |-> attempt,
     reset |-> NoHeader, now |-> now, jitter |-> jitter,
     wait |-> calculate_backoff(attempt, NoHeader, now, jitter)]

\* wait_time = self._calculate_backoff(attempt, ratelimit_reset); time.sleep(wait_time)
backoff_sleep(header, attempt, ratelimit_reset, now, jitter) ==
    [active |-> TRUE, header |-> header, attempt |-> attempt,
     reset |-> ratelimit_reset, now |-> now, jitter |-> jitter,
     wait |-> calculate_backoff(attempt, ratelimit_reset, now, jitter)]

NoPost == [exc |-> "none", status |-> 0, authcode |-> "missing"]

\* a decoded JSON body, r.json(): a list with its members, a dict with its
\* keys and the value of its "link" key, the JSON null, or a JSON number
\* (t = "none" stands for "no body at all")
NoBody == [t |-> "none", keys |-> {}, link |-> ""]
Bodies ==
    { [t |-> "list", keys |-> {}, link |-> ""],
      [t |-> "list", keys |-> {"link"}, link |-> ""],
      [t |-> "dict", keys |-> {"chunk_info"}, link |-> ""],
      [t |-> "dict", keys |-> {"link"}, link |-> "https://x"],
      [t |-> "dict", keys |-> {"link", "expires"}, link |-> "https://y"],
      [t |-> "null", keys |-> {}, link |-> ""],
      [t |-> "int", keys |-> {}, link |-> ""] }

\* r.headers.get("Content-Type", ""), as the sequence of the pieces of text
\* it is made of (<<>> is the empty text)
ContentTypes ==
    { <<"application/json">>, <<"application/json", "; charset=utf-8">>,
      <<"text/csv">>, <<"text/plain", "; charset=utf-8">>,
      <<"application/octet-stream">>, <<"text/html">>, <<>> }

\* "piece in text": the substring test of Python on such a text
Contains(piece, text) == \E i \in DOMAIN text : text[i] = piece

\* the argument of _get_chunks: None, a list, or a dict that may hold
\* "base_download_url" and "chunk_file_names"
NoChunks == [t |-> "none", has_base |-> FALSE, base |-> "",
             has_names |-> FALSE, names |-> <<>>]
ChunkNames == {"a.json", "b.json"}
ChunkNameLists ==
    UNION {[1..n -> ChunkNames] : n \in 0..MaxChunks}
ChunkInputs ==
    {NoChunks, [NoChunks EXCEPT !.t = "list"]}
    \cup {[t |-> "dict", has_base |-> hb, base |-> IF hb THEN "http://x/" ELSE "",
           has_names |-> hn, names |-> IF hn THEN ns ELSE <<>>] :
              hb \in BOOLEAN, hn \in BOOLEAN, ns \in ChunkNameLists}

\* what the server holds at a chunk URL: a JSON list of records
ChunkData(url) ==
    IF url = "http://x/a.json" THEN <<1, 2>>
    ELSE IF url = "http://x/b.json" THEN <<3>>
    ELSE <<>>

\* the arguments of _add_assets: objects is a list of dicts, assets a dict
\* from the text of an id to a dict of extra fields, id_key the name of the
\* id field (the orphan object has no id field)
ObjectDicts ==
    { [car_id |-> 1, name |-> "n1"],
      [car_id |-> 12, name |-> "n12"],
      [car_id |-> 3, name |-> "n3"],
      [name |-> "orphan"] }
ObjectLists == UNION {[1..n -> ObjectDicts] : n \in 0..MaxObjects}
AssetTables ==
    { ("1" :> [logo |-> "l1"]) @@ ("12" :> [logo |-> "l12", name |-> "a12"]),
      ("1" :> [logo |-> "l1", car_id |-> 7]) @@ ("12" :> [name |-> "a12"])
          @@ ("3" :> [logo |-> "l3"]),
      ("2" :> [logo |-> "l2"]) }
IdKeys == {"car_id"}
NoAssets == [t |-> "none"]

\* the argument of _parse_csv_response: a text, as the sequence of its
\* characters; a letter with a lower-case form, a letter without one, the
\* delimiter and the end of line
CsvChars == {"I", "d", ",", "\n"}
CsvTexts == UNION {[1..n -> CsvChars] : n \in 0..MaxText}

\* the arguments of _encode_password: texts, as sequences of characters
\* ("I" and "i" are the two cases of one letter)
NameChars == {"I", "i", "d"}
Usernames == UNION {[1..n -> NameChars] : n \in 0..MaxName}
Passwords == {<<"I">>, <<"i">>, <<"i", "d">>}
NoSecret == [b64 |-> [sha256 |-> <<"none">>]]

\* the arguments of irDataClient(username, password)
Constructions ==
    { [username |-> <<"I", "d">>, password |-> <<"i">>],
      [username |-> <<"d">>, password |-> <<"I">>] }

\* the JSON body of a login POST (none yet)
NoLoginData == [email |-> <<>>, password |-> NoSecret]

\* the locals of a call that has not started
IdleCall ==
    [ pc                |-> "idle",
      op                |-> "none",     \* "get" or "login"
      retries           |-> 0,          \* _robust_get: retries
      require_auth      |-> FALSE,      \* _robust_get: require_auth
      attempt           |-> 0,          \* _robust_get: attempt
      attempted_relogin |-> FALSE,      \* _robust_get: attempted_relogin
      login_retries     |-> 0,          \* _login: retries
      login_attempt     |-> 0,          \* _login: attempt
      login_from        |-> "none",     \* call site of the running _login
      sleep             |-> NoSleep,    \* the time.sleep(wait_time) in progress
      gets              |-> <<>>,       \* outcomes of the GETs sent, in order
      rate              |-> NoRate,     \* rate headers of the last GET response
      last_post         |-> NoPost,     \* outcome of the last POST
      login_json        |-> NoLoginData, \* _login: data
      posted            |-> NoLoginData, \* JSON body of the last POST
      result            |-> "none",     \* "ok" or the error raised
      returned          |-> 0,          \* status of the response returned
      auth_at_entry     |-> FALSE,      \* self.authenticated when called
      n_post            |-> 0,          \* POSTs sent
      n_upfront         |-> 0,          \* _login calls of line 196
      n_relogin         |-> 0,          \* _login calls of line 223
      n_login_ok        |-> 0,          \* _login calls that returned
      n_sleep_get       |-> 0,          \* backoff sleeps of _robust_get
      n_sleep_login     |-> 0,          \* backoff sleeps of _login
      n_settle          |-> 0,          \* time.sleep(0.5) of _login
      outer             |-> "none",     \* "resource": _robust_get was called by _get_resource
      stage             |-> "none",     \* _get_resource: "first" request or "link" request
      res_retries       |-> 0,          \* _get_resource: retries
      n_get_calls       |-> 0,          \* _get_resource: calls of _robust_get made
      body              |-> NoBody,     \* _get_resource_or_link: data = r.json()
      is_link           |-> FALSE,      \* _get_resource: is_link
      link              |-> "",         \* _get_resource: resource_obj when is_link
      content_type      |-> <<>>,       \* _get_resource: content_type
      link_body         |-> NoBody,     \* _get_resource: r.json() of the link response
      data              |-> NoBody,     \* _get_resource: the value returned
      decoded           |-> "none",     \* _get_resource: how the value returned was obtained
      chunks            |-> NoChunks,   \* _get_chunks: chunks
      urls              |-> <<>>,       \* _get_chunks: urls
      list_of_chunks    |-> <<>>,       \* _get_chunks: list_of_chunks so far
      fetched           |-> <<>>,       \* _get_chunks: URLs requested, in order
      output            |-> <<>>,       \* _get_chunks: output
      objects           |-> <<>>,       \* _add_assets: objects when called
      assets            |-> NoAssets,   \* _add_assets: assets
      id_key            |-> "",         \* _add_assets: id_key
      objects_after     |-> <<>>,       \* _add_assets: the list when the call ends
      merged            |-> <<>>,       \* _add_assets: the list returned
      again             |-> "none",     \* _add_assets on the list returned: "ok" or the error
      merged_again      |-> <<>>,       \* _add_assets on the list returned: the list returned
      text              |-> <<>>,       \* _parse_csv_response: text
      csv_data          |-> <<>>,       \* _parse_csv_response: the list returned
      username          |-> <<>>,       \* _encode_password: username
      password          |-> <<>>,       \* _encode_password: password
      encoded           |-> NoSecret ]  \* _encode_password: the text returned

(* ---------------- control flow of the two routines ---------------- *)

Raise(c, err) == [c EXCEPT !.pc = "done", !.result = err]

\* raise RuntimeError(... "Exceeded retry attempts" ...) after the for loop
robust_get_exhausted(c) == Raise(c, "Exceeded retry attempts")

\* variant of robust_get_loop_next: "while True" in place of the for loop
robust_get_loop_next_unbounded(c) ==
    [c EXCEPT !.attempt = c.attempt + 1, !.pc = "get_send"]

\* variant of robust_get_loop_next: the loop runs one iteration too many
robust_get_loop_next_off_by_one(c) ==
    IF c.attempt + 1 <= c.retries
    THEN [c EXCEPT !.attempt = c.attempt + 1, !.pc = "get_send"]
    ELSE robust_get_exhausted(c)

\* the next iteration of "for attempt in range(retries)" in _robust_get
robust_get_loop_next(c) ==
    IF c.attempt + 1 < c.retries
    THEN [c EXCEPT !.attempt = c.attempt + 1, !.pc = "get_send"]
    ELSE robust_get_exhausted(c)

\* variant of robust_get_loop_start: the flag is kept from the call before
robust_get_loop_start_keeping_flag(c) ==
    LET d == [c EXCEPT !.attempted_relogin = history.relogin_ended,
                       !.attempt = 0] IN
    IF 0 < d.retries
    THEN [d EXCEPT !.pc = "get_send"]
    ELSE robust_get_exhausted(d)

\* attempted_relogin = False and the first iteration of the loop
robust_get_loop_start(c) ==
    LET d == [c EXCEPT !.attempted_relogin = FALSE, !.attempt = 0] IN
    IF 0 < d.retries
    THEN [d EXCEPT !.pc = "get_send"]
    ELSE robust_get_exhausted(d)

\* variant of login_data: the email is sent in lower case
login_data_lowercased(user, secret) ==
    [email |-> Lower(user), password |-> secret]

\* data = {"email": self.username, "password": self.encoded_password}
login_data(user, secret) ==
    [email |-> user, password |-> secret]

\* variant of login_start: a call made with require_auth false does not
\* log in again after a 401, it gives up
login_start_when_required(c, retries, from) ==
    LET d == [c EXCEPT !.login_retries = retries, !.login_attempt = 0,
                       !.login_json = login_data(username, encoded_password),
                       !.login_from = from,
                       !.n_upfront = IF from = "upfront" THEN @ + 1 ELSE @,
                       !.n_relogin = IF from = "relogin" THEN @ + 1 ELSE @] IN
    IF from = "relogin" /\ ~c.require_auth
    THEN Raise(c, "401 repeated after re-login")
    ELSE IF 0 < retries
    THEN [d EXCEPT !.pc = "login_post"]
    ELSE Raise(d, "Login failed after retries")

\* self._login(retries): the first iteration of its loop
login_start(c, retries, from) ==
    LET d == [c EXCEPT !.login_retries = retries, !.login_attempt = 0,
                       !.login_json = login_data(username, encoded_password),
                       !.login_from = from,
                       !.n_upfront = IF from = "upfront" THEN @ + 1 ELSE @,
                       !.n_relogin = IF from = "relogin" THEN @ + 1 ELSE @] IN
    IF 0 < retries
    THEN [d EXCEPT !.pc = "login_post"]
    ELSE Raise(d, "Login failed after retries")

\* variant of login_loop_next: the loop runs one iteration too many
login_loop_next_off_by_one(c) ==
    IF c.login_attempt + 1 <= c.login_retries
    THEN [c EXCEPT !.login_attempt = c.login_attempt + 1, !.pc = "login_post"]
    ELSE Raise(c, "Login failed after retries")

\* the next iteration of "for attempt in range(retries)" in _login
login_loop_next(c) ==
    IF c.login_attempt + 1 < c.login_retries
    THEN [c EXCEPT !.login_attempt = c.login_attempt + 1, !.pc = "login_post"]
    ELSE Raise(c, "Login failed after retries")

\* variant of login_return: after a re-login the GET is sent again in the
\* same iteration of the loop
login_return_same_slot(c) ==
    LET d == [c EXCEPT !.n_login_ok = @ + 1, !.login_from = "none"] IN
    IF c.login_from = "upfront" THEN robust_get_loop_start(d)
    ELSE IF c.login_from = "relogin" THEN [d EXCEPT !.pc = "get_send"]
    ELSE [d EXCEPT !.pc = "done", !.result = "ok"]

\* _login returns: control goes back to its call site
login_return(c) ==
    LET d == [c EXCEPT !.n_login_ok = @ + 1, !.login_from = "none"] IN
    IF c.login_from = "upfront" THEN robust_get_loop_start(d)
    ELSE IF c.login_from = "relogin" THEN robust_get_loop_next(d)
    ELSE [d EXCEPT !.pc = "done", !.result = "ok"]

\* variant of robust_get_begin: the up-front _login is given the retries of
\* the _robust_get call
robust_get_begin_login_with_retries(c0, retries, require_auth, is_authenticated) ==
    LET c == [c0 EXCEPT !.op = "get", !.retries = retries,
                        !.require_auth = require_auth,
                        !.auth_at_entry = is_authenticated] IN
    IF needs_login(require_auth, is_authenticated)
    THEN login_start(c, retries, "upfront")
    ELSE robust_get_loop_start(c)

\* the entry of _robust_get(url, payload, retries, require_auth), lines
\* 194-200, in a frame c0 whose locals of _robust_get are still unset
robust_get_begin(c0, retries, require_auth, is_authenticated) ==
    LET c == [c0 EXCEPT !.op = "get", !.retries = retries,
                        !.require_auth = require_auth,
                        !.auth_at_entry = is_authenticated] IN
    IF needs_login(require_auth, is_authenticated)
    THEN login_start(c, LoginDefaultRetries, "upfront")
    ELSE robust_get_loop_start(c)

\* variant of get_resource_or_link: a "link" key is not looked for
get_resource_or_link_never_link(data) ==
    IF data.t \notin {"list", "dict"}
    THEN [is_link |-> FALSE, link |-> "", data |-> NoBody, error |-> "TypeError"]
    ELSE [is_link |-> FALSE, link |-> "", data |-> data, error |-> "none"]

\* _get_resource_or_link on data = r.json(): lines 281-283
\* ('"link" in data' raises TypeError when data is None or a number)
get_resource_or_link(data) ==
    IF data.t = "list"
    THEN [is_link |-> FALSE, link |-> "", data |-> data, error |-> "none"]
    ELSE IF data.t # "dict"
    THEN [is_link |-> FALSE, link |-> "", data |-> NoBody, error |-> "TypeError"]
    ELSE IF "link" \in data.keys
    THEN [is_link |-> TRUE, link |-> data.link, data |-> NoBody, error |-> "none"]
    ELSE [is_link |-> FALSE, link |-> "", data |-> data, error |-> "none"]

\* variant of get_resource_decoder: text/plain is not a known type
get_resource_decoder_no_plain(content_type) ==
    IF Contains("application/json", content_type) THEN "json"
    ELSE IF Contains("text/csv", content_type) THEN "csv"
    ELSE "null"

\* the decoder _get_resource picks for a content type: lines 316-324
get_resource_decoder(content_type) ==
    IF Contains("application/json", content_type) THEN "json"
    ELSE IF Contains("text/csv", content_type) \/ Contains("text/plain", content_type)
    THEN "csv"
    ELSE "null"

\* str(n) for an integer n >= 0: its decimal digits
DigitText == <<"0", "1", "2", "3", "4", "5", "6", "7", "8", "9">>
RECURSIVE Str(_)
Str(n) ==
    IF n < 10 THEN DigitText[n + 1]
    ELSE Str(n \div 10) \o DigitText[(n % 10) + 1]

\* variant of merge_asset: a field the object already has is kept
merge_asset_keeping_own(obj, a) ==
    [key \in DOMAIN obj \cup DOMAIN a |->
        IF key \in DOMAIN obj THEN obj[key] ELSE a[key]]

\* for key in a.keys(): obj[key] = a[key]   (lines 382-383)
merge_asset(obj, a) ==
    [key \in DOMAIN obj \cup DOMAIN a |->
        IF key \in DOMAIN a THEN a[key] ELSE obj[key]]

\* variant of add_assets_from: the list is handed back last object first
RECURSIVE add_assets_from_reversed(_, _, _, _)
add_assets_from_reversed(i, objects, assets, id_key) ==
    IF i > Len(objects)
    THEN [objects |-> [j \in DOMAIN objects |-> objects[Len(objects) + 1 - j]],
          error |-> "none"]
    ELSE IF id_key \notin DOMAIN objects[i]
    THEN [objects |-> objects, error |-> "KeyError"]
    ELSE IF Str(objects[i][id_key]) \notin DOMAIN assets
    THEN [objects |-> objects, error |-> "KeyError"]
    ELSE add_assets_from_reversed(i + 1,
             [objects EXCEPT ![i] =
                 merge_asset(@, assets[Str(objects[i][id_key])])],
             assets, id_key)

RECURSIVE add_assets_from(_, _, _, _)

\* variant of add_assets_from: every lookup is made before any object is
\* written, so a failing lookup leaves the whole list as it was
add_assets_from_all_or_nothing(i, objects, assets, id_key) ==
    IF i > Len(objects) THEN [objects |-> objects, error |-> "none"]
    ELSE IF id_key \notin DOMAIN objects[i]
    THEN [objects |-> objects, error |-> "KeyError"]
    ELSE IF Str(objects[i][id_key]) \notin DOMAIN assets
    THEN [objects |-> objects, error |-> "KeyError"]
    ELSE LET rest == add_assets_from(i + 1, objects, assets, id_key) IN
         IF rest.error # "none"
         THEN [objects |-> objects, error |-> rest.error]
         ELSE [objects |-> [rest.objects EXCEPT ![i] =
                              merge_asset(@, assets[Str(objects[i][id_key])])],
               error |-> "none"]

\* the for loop of _add_assets from object number i on (lines 377-385):
\* the list as the loop leaves it, and the error raised if any
add_assets_from(i, objects, assets, id_key) ==
    IF i > Len(objects) THEN [objects |-> objects, error |-> "none"]
    ELSE IF id_key \notin DOMAIN objects[i]
    THEN [objects |-> objects, error |-> "KeyError"]
    ELSE IF Str(objects[i][id_key]) \notin DOMAIN assets
    THEN [objects |-> objects, error |-> "KeyError"]
    ELSE add_assets_from(i + 1,
             [objects EXCEPT ![i] =
                 merge_asset(@, assets[Str(objects[i][id_key])])],
             assets, id_key)

\* the pieces of text between the occurrences of sep
RECURSIVE Split(_, _)
Split(text, sep) ==
    IF \A i \in DOMAIN text : text[i] # sep THEN <<text>>
    ELSE LET i == CHOOSE k \in DOMAIN text :
                     text[k] = sep /\ \A j \in 1..(k - 1) : text[j] # sep
         IN <<SubSeq(text, 1, i - 1)>> \o Split(SubSeq(text, i + 1, Len(text)), sep)

\* csv.reader(StringIO(text), delimiter=","): one row per line of the text,
\* an empty line giving the empty row (line 406; the texts hold no quote)
csv_reader(text) ==
    LET pieces == Split(text, "\n")
        lines == IF pieces[Len(pieces)] = <<>>
                 THEN SubSeq(pieces, 1, Len(pieces) - 1) ELSE pieces
    IN [i \in DOMAIN lines |->
           IF lines[i] = <<>> THEN <<>> ELSE Split(lines[i], ",")]

\* dict(zip(headers, row)): a later column replaces an earlier one of the
\* same name
csv_dict(headers, row) ==
    [key \in {headers[i] : i \in DOMAIN headers} |->
        row[CHOOSE i \in DOMAIN headers :
               /\ headers[i] = key
               /\ \A j \in DOMAIN headers : headers[j] = key => j <= i]]

\* variant of parse_csv_rows: the first row of another length ends the loop
RECURSIVE parse_csv_rows_until_mismatch(_, _, _, _)
parse_csv_rows_until_mismatch(i, rows, headers, csv_data) ==
    IF i > Len(rows) THEN csv_data
    ELSE IF Len(rows[i]) = Len(headers)
    THEN parse_csv_rows_until_mismatch(i + 1, rows, headers,
                        Append(csv_data, csv_dict(headers, rows[i])))
    ELSE csv_data

\* the for loop of _parse_csv_response from row number i on (lines 412-417)
RECURSIVE parse_csv_rows(_, _, _, _)
parse_csv_rows(i, rows, headers, csv_data) ==
    IF i > Len(rows) THEN csv_data
    ELSE IF Len(rows[i]) = Len(headers)
    THEN parse_csv_rows(i + 1, rows, headers,
                        Append(csv_data, csv_dict(headers, rows[i])))
    ELSE parse_csv_rows(i + 1, rows, headers, csv_data)

\* _parse_csv_response(text): lines 403-418; next(reader) raises
\* StopIteration when the reader has no row
parse_csv_response(text) ==
    LET rows == csv_reader(text) IN
    IF rows = <<>> THEN [error |-> "StopIteration", csv_data |-> <<>>]
    ELSE LET headers == [i \in DOMAIN rows[1] |-> Lower(rows[1][i])] IN
         [error |-> "none",
          csv_data |-> parse_csv_rows(2, rows, headers, <<>>)]

\* hashlib.sha256(...).digest() and base64.b64encode(...).decode("utf-8"):
\* the digest of a text is taken to be owned by that text alone (no
\* collision), and the Base64 text of a digest stands for that digest alone
sha256(bytes) == [sha256 |-> bytes]
b64encode(digest) == [b64 |-> digest]

\* variant of encode_password: the username is used as it was typed
encode_password_as_typed(user, password) ==
    b64encode(sha256(password \o user))

\* _encode_password(username, password), with user for its username:
\* lines 42-46 (the characters of the model are ASCII, which
\* encode("utf-8") leaves one byte each)
encode_password(user, password) ==
    b64encode(sha256(password \o Lower(user)))

RECURSIVE Flatten(_)

\* variant of Flatten: each sublist is put behind the later ones
Flatten_newest_first(lists) ==
    IF lists = <<>> THEN <<>> ELSE Flatten(Tail(lists)) \o Head(lists)

\* [item for sublist in list_of_chunks for item in sublist]
Flatten(lists) ==
    IF lists = <<>> THEN <<>> ELSE Head(lists) \o Flatten(Tail(lists))

\* the _login() of line 223 is running in the call with the locals c and
\* has not succeeded yet
InRelogin(c) ==
    c.login_from = "relogin" /\ c.pc \in {"login_post", "login_sleep"}

\* the _login() of line 223 has set the flag (line 152) in the call with
\* the locals c, which is still running
ReloggedIn(c) ==
    /\ c.op = "get" /\ c.n_relogin = 1
    /\ \/ c.login_from = "relogin" /\ c.pc = "login_settle"
       \/ c.login_from = "none" /\ c.pc \in {"get_send", "get_sleep"}

\* call p runs lines 219-223 on a 401: double_login remembers that another
\* call was already in the _login() of line 223, reset_after_login that the
\* flag it sets to False had been set by the _login() of another call
\* that re-logged in
crossed(p) ==
    [history EXCEPT
        !.double_login =
            @ \/ \E q \in Procs \ {p} : InRelogin(call[q]),
        !.reset_after_login =
            @ \/ (authenticated /\ \E q \in Procs \ {p} : ReloggedIn(call[q]))]

\* what self.session.get(url).json() may do: give the decoded JSON, or
\* raise an exception of requests or of the JSON decoder
ChunkOutcomes == {"json", "Timeout", "ConnectionError", "JSONDecodeError"}

\* variant of get_chunks_next: a chunk that cannot be fetched is left out
get_chunks_next_skipping_failures(c, r) ==
    LET url == c.urls[Len(c.fetched) + 1]
        d == [c EXCEPT !.fetched = Append(@, url),
                       !.list_of_chunks = IF r = "json"
                                          THEN Append(@, ChunkData(url)) ELSE @]
    IN
    IF Len(d.fetched) < Len(d.urls)
    THEN d
    ELSE [d EXCEPT !.pc = "returned", !.result = "ok",
                   !.output = Flatten(d.list_of_chunks)]

\* the next self.session.get(url).json() of line 353 with outcome r in the
\* frame c and, after the last one, lines 356-358
get_chunks_next(c, r) ==
    LET url == c.urls[Len(c.list_of_chunks) + 1]
        d == [c EXCEPT !.fetched = Append(@, url)]
    IN
    IF r # "json"
    THEN Raise(d, r)
    ELSE LET e == [d EXCEPT !.list_of_chunks = Append(@, ChunkData(url))] IN
         IF Len(e.list_of_chunks) < Len(e.urls)
         THEN e
         ELSE [e EXCEPT !.pc = "returned", !.result = "ok",
                        !.output = Flatten(e.list_of_chunks)]

Init ==
    /\ authenticated = FALSE
    /\ \E made \in Constructions :
         /\ username = made.username
         /\ encoded_password = encode_password(made.username, made.password)
    /\ call = [p \in Procs |-> IdleCall]
    /\ history = NoHistory

(* ---------------- actions ---------------- *)

\* _robust_get is called, by the user or by _get_resource
\* lines 194-198, up to the first blocking operation
robust_get_entry(p) ==
    /\ call[p].pc = "idle"
    /\ \E retries \in 0..MaxRetries, require_auth \in BOOLEAN :
         call' = [call EXCEPT ![p] =
                    robust_get_begin(IdleCall, retries, require_auth, authenticated)]
    /\ UNCHANGED <<authenticated, username, encoded_password, history>>

\* _login is called directly with a retries argument
login_entry(p) ==
    /\ call[p].pc = "idle"
    /\ \E retries \in 0..MaxRetries :
         call' = [call EXCEPT ![p] =
                    login_start([IdleCall EXCEPT !.op = "login",
                                                 !.auth_at_entry = authenticated],
                                retries, "direct")]
    /\ UNCHANGED <<authenticated, username, encoded_password, history>>

\* one self.session.post(...) of _login and the handling of its outcome
login_post(p) ==
    /\ call[p].pc = "login_post"
    /\ \E r \in {St(s) : s \in PostStatuses} \cup {Ex(e) : e \in Exceptions} :
       \E authcode \in AuthCodesRead(r), reset \in HeadersUsed(r) :
         LET body == authcode
             header == reset
             c == [call[p] EXCEPT !.n_post = @ + 1,
                                  !.posted = call[p].login_json,
                                  !.last_post = [exc |-> r.exc, status |-> r.status,
                                                 authcode |-> body]]
             what == IF r.exc # "none" THEN "exception"
                     ELSE login_status(r.status, body)
         IN
         CASE what \in {"backoff", "exception"} ->
                /\ \E now \in ClockReads(header), jitter \in RandomDraws(header) :
                     call' = [call EXCEPT ![p] =
                       [c EXCEPT !.pc = "login_sleep",
                                 !.n_sleep_login = @ + 1,
                                 !.sleep = backoff_sleep(header, c.login_attempt,
                                                         header, now, jitter)]]
                /\ UNCHANGED <<authenticated, username, encoded_password, history>>
           [] what = "success" ->
                /\ authenticated' = TRUE
                /\ UNCHANGED <<username, encoded_password, history>>
                /\ call' = [call EXCEPT ![p] =
                       [c EXCEPT !.pc = "login_settle", !.n_settle = @ + 1]]
           [] what = "raise_auth_failure" ->
                /\ call' = [call EXCEPT ![p] = Raise(c, "Auth failure")]
                /\ UNCHANGED <<authenticated, username, encoded_password, history>>
           [] what = "raise_http" ->
                /\ call' = [call EXCEPT ![p] = Raise(c, "Login HTTP")]
                /\ UNCHANGED <<authenticated, username, encoded_password, history>>

\* time.sleep(wait_time) of _login returns; the loop goes on
login_sleep(p) ==
    /\ call[p].pc = "login_sleep"
    /\ call' = [call EXCEPT ![p] = login_loop_next([call[p] EXCEPT !.sleep = NoSleep])]
    /\ UNCHANGED <<authenticated, username, encoded_password, history>>

\* time.sleep(0.5) of _login returns; _login returns to its caller
login_settle(p) ==
    /\ call[p].pc = "login_settle"
    /\ call' = [call EXCEPT ![p] = login_return(call[p])]
    /\ UNCHANGED <<authenticated, username, encoded_password, history>>

\* one self.session.get(...) of _robust_get and the handling of its outcome
robust_get_send(p) ==
    /\ call[p].pc = "get_send"
    /\ \E r \in {St(s) : s \in GetStatuses} \cup {Ex(e) : e \in Exceptions} :
       \E reset \in HeadersUsed(r), counts \in CountsRead(r) :
         LET header == reset
             c == [call[p] EXCEPT !.gets = Append(@, r), !.rate = counts]
             what == IF r.exc # "none" THEN "exception"
                     ELSE robust_get_status(r.status, c.attempted_relogin)
         IN
         CASE what \in {"backoff", "exception"} ->
                /\ \E now \in ClockReads(header), jitter \in RandomDraws(header) :
                     call' = [call EXCEPT ![p] =
                       [c EXCEPT !.pc = "get_sleep",
                                 !.n_sleep_get = @ + 1,
                                 !.sleep = backoff_sleep(header, c.attempt,
                                                         header, now, jitter)]]
                /\ UNCHANGED <<authenticated, username, encoded_password, history>>
           [] what = "relogin" ->
                /\ authenticated' = FALSE
                /\ history' = crossed(p)
                /\ UNCHANGED <<username, encoded_password>>
                /\ call' = [call EXCEPT ![p] =
                       login_start([c EXCEPT !.attempted_relogin = TRUE],
                                   LoginDefaultRetries, "relogin")]
           [] what = "raise_401" ->
                /\ call' = [call EXCEPT ![p] =
                       Raise(c, "401 repeated after re-login")]
                /\ UNCHANGED <<authenticated, username, encoded_password, history>>
           [] what = "raise_403" ->
                /\ call' = [call EXCEPT ![p] = Raise(c, "403 Forbidden")]
                /\ UNCHANGED <<authenticated, username, encoded_password, history>>
           [] what = "raise_non200" ->
                /\ call' = [call EXCEPT ![p] = Raise(c, "Unhandled Non-200 response")]
                /\ UNCHANGED <<authenticated, username, encoded_password, history>>
           [] what = "return" ->
                /\ call' = [call EXCEPT ![p] =
                       [c EXCEPT !.pc = "done", !.result = "ok",
                                 !.returned = r.status]]
                /\ UNCHANGED <<authenticated, username, encoded_password, history>>

\* time.sleep(wait_time) of _robust_get returns; the loop goes on
robust_get_sleep(p) ==
    /\ call[p].pc = "get_sleep"
    /\ call' = [call EXCEPT ![p] =
                  robust_get_loop_next([call[p] EXCEPT !.sleep = NoSleep])]
    /\ UNCHANGED <<authenticated, username, encoded_password, history>>

\* _get_resource(endpoint, payload, retries) is called: lines 303-306, up
\* to the first blocking operation of its first _robust_get
get_resource_entry(p) ==
    /\ call[p].pc = "idle"
    /\ \E retries \in 0..MaxRetries :
         call' = [call EXCEPT ![p] =
                    robust_get_begin([IdleCall EXCEPT !.outer = "resource",
                                                      !.stage = "first",
                                                      !.res_retries = retries,
                                                      !.n_get_calls = 1],
                                     retries, TRUE, authenticated)]
    /\ UNCHANGED <<authenticated, username, encoded_password, history>>

\* the first _robust_get of _get_resource has returned: lines 280-283 and
\* 306-313, up to the first blocking operation of the second _robust_get
get_resource_first(p) ==
    /\ call[p].pc = "done" /\ call[p].result = "ok"
    /\ call[p].outer = "resource" /\ call[p].stage = "first"
    /\ \E data \in Bodies :
         LET rl == get_resource_or_link(data)
             frame == [IdleCall EXCEPT !.outer = "resource",
                                       !.res_retries = call[p].res_retries,
                                       !.n_get_calls = call[p].n_get_calls,
                                       !.body = data,
                                       !.is_link = rl.is_link,
                                       !.link = rl.link]
         IN
         call' = [call EXCEPT ![p] =
                    IF rl.error # "none"
                    THEN [frame EXCEPT !.op = "resource", !.pc = "returned",
                                       !.stage = "first", !.result = rl.error]
                    ELSE IF ~rl.is_link
                    THEN [frame EXCEPT !.op = "resource", !.pc = "returned",
                                       !.stage = "first",
                                       !.result = "ok", !.data = rl.data,
                                       !.decoded = "inline"]
                    ELSE robust_get_begin([frame EXCEPT !.stage = "link",
                                                        !.n_get_calls = @ + 1],
                                          call[p].res_retries, TRUE, authenticated)]
    /\ history' = ended(call[p])
    /\ UNCHANGED <<authenticated, username, encoded_password>>

\* the second _robust_get of _get_resource has returned: lines 316-324
get_resource_link(p) ==
    /\ call[p].pc = "done" /\ call[p].result = "ok"
    /\ call[p].outer = "resource" /\ call[p].stage = "link"
    /\ \E content_type \in ContentTypes, payload \in Bodies :
         LET how == get_resource_decoder(content_type) IN
         call' = [call EXCEPT ![p] =
                    [IdleCall EXCEPT !.op = "resource", !.pc = "returned",
                                     !.outer = "resource", !.stage = "link",
                                     !.res_retries = call[p].res_retries,
                                     !.n_get_calls = call[p].n_get_calls,
                                     !.body = call[p].body,
                                     !.is_link = TRUE,
                                     !.link = call[p].link,
                                     !.content_type = content_type,
                                     !.result = "ok",
                                     !.decoded = how,
                                     !.link_body = payload,
                                     !.data = IF how = "json" THEN payload ELSE NoBody]]
    /\ history' = ended(call[p])
    /\ UNCHANGED <<authenticated, username, encoded_password>>

\* _get_chunks(chunks) is called: lines 342-350, up to the first GET
get_chunks_entry(p) ==
    /\ call[p].pc = "idle"
    /\ \E chunks \in ChunkInputs :
         LET c == [IdleCall EXCEPT !.op = "chunks", !.chunks = chunks] IN
         call' = [call EXCEPT ![p] =
            IF chunks.t # "dict"
            THEN [c EXCEPT !.pc = "returned", !.result = "ok"]
            ELSE IF ~chunks.has_names
            THEN Raise(c, "TypeError: 'NoneType' object is not iterable")
            ELSE IF ~chunks.has_base /\ chunks.names # <<>>
            THEN Raise(c, "TypeError: NoneType + str")
            ELSE LET d == [c EXCEPT !.urls = [i \in DOMAIN chunks.names |->
                                                chunks.base \o chunks.names[i]]] IN
                 IF d.urls = <<>>
                 THEN [d EXCEPT !.pc = "returned", !.result = "ok"]
                 ELSE [d EXCEPT !.pc = "chunk_get"]]
    /\ UNCHANGED <<authenticated, username, encoded_password, history>>

\* one self.session.get(url).json() of _get_chunks (line 353) and, after
\* the last one, lines 356-358
get_chunks_get(p) ==
    /\ call[p].pc = "chunk_get"
    /\ \E r \in ChunkOutcomes :
         call' = [call EXCEPT ![p] = get_chunks_next(call[p], r)]
    /\ UNCHANGED <<authenticated, username, encoded_password, history>>

\* _calculate_backoff(attempt, ratelimit_reset) is called on its own; its
\* arguments, clock reading, random draw and result are kept in sleep
calculate_backoff_call(p) ==
    /\ call[p].pc = "idle"
    /\ \E attempt \in 0..MaxAttemptIndex, reset \in ResetHeaders :
         \E now \in ClockReads(reset), jitter \in RandomDraws(reset) :
            call' = [call EXCEPT ![p] =
                       [IdleCall EXCEPT
                          !.op = "backoff", !.pc = "returned", !.result = "ok",
                          !.sleep = [backoff_sleep(reset, attempt, reset, now, jitter)
                                       EXCEPT !.active = FALSE]]]
    /\ UNCHANGED <<authenticated, username, encoded_password, history>>

\* the caller has received the result or the error; the locals are gone
Return(p) ==
    /\ \/ call[p].pc = "returned"
       \/ /\ call[p].pc = "done"
          /\ ~(call[p].outer = "resource" /\ call[p].result = "ok")
    /\ call' = [call EXCEPT ![p] = IdleCall]
    /\ history' = ended(call[p])
    /\ UNCHANGED <<authenticated, username, encoded_password>>

\* no call is running on the client
Quiescent == \A q \in Procs : call[q].pc = "idle"

\* single-threaded use: a call starts only when no other call is running.
\* Which caller makes the calls changes nothing then, so one caller makes
\* them all; SpecConc is the specification in which both callers run.
Callers == {1}

Next ==
    \E p \in Callers :
        \/ (Quiescent /\ robust_get_entry(p))
        \/ (Quiescent /\ login_entry(p))
        \/ (Quiescent /\ get_resource_entry(p))
        \/ (Quiescent /\ get_chunks_entry(p))
        \/ get_resource_first(p)
        \/ get_resource_link(p)
        \/ get_chunks_get(p)
        \/ login_post(p)
        \/ login_sleep(p)
        \/ login_settle(p)
        \/ robust_get_send(p)
        \/ robust_get_sleep(p)
        \/ Return(p)

Spec == Init /\ [][Next]_vars

\* _robust_get and _login under the assumption that every network call and
\* every sleep returns: a running call is not left waiting forever in
\* session.post, session.get or time.sleep.  Nothing is assumed about when
\* calls are made or what the server answers.
NextLive ==
    \E p \in Callers :
        \/ (Quiescent /\ robust_get_entry(p))
        \/ (Quiescent /\ login_entry(p))
        \/ login_post(p)
        \/ login_sleep(p)
        \/ login_settle(p)
        \/ robust_get_send(p)
        \/ robust_get_sleep(p)
        \/ Return(p)

SpecLive ==
    /\ Init /\ [][NextLive]_vars
    /\ \A p \in Callers :
         /\ WF_vars(login_post(p))
         /\ WF_vars(login_sleep(p))
         /\ WF_vars(login_settle(p))
         /\ WF_vars(robust_get_send(p))
         /\ WF_vars(robust_get_sleep(p))

\* the backoff calculator on its own, over all its arguments
NextBackoff ==
    \E p \in Procs :
        \/ (Quiescent /\ calculate_backoff_call(p))
        \/ Return(p)

SpecBackoff == Init /\ [][NextBackoff]_vars

\* _add_assets(objects, assets, id_key) is called: lines 377-385
add_assets_call(p) ==
    /\ call[p].pc = "idle"
    /\ \E objects \in ObjectLists, assets \in AssetTables, id_key \in IdKeys :
         LET r == add_assets_from(1, objects, assets, id_key)
             c == [IdleCall EXCEPT !.op = "assets", !.pc = "returned",
                                   !.objects = objects, !.assets = assets,
                                   !.id_key = id_key,
                                   !.objects_after = r.objects]
         IN
         call' = [call EXCEPT ![p] =
                    IF r.error # "none"
                    THEN [c EXCEPT !.result = r.error]
                    ELSE [c EXCEPT !.result = "ok", !.merged = r.objects]]
    /\ UNCHANGED <<authenticated, username, encoded_password, history>>

\* the asset merger on its own
NextAssets ==
    \E p \in Procs :
        \/ (Quiescent /\ add_assets_call(p))
        \/ Return(p)

SpecAssets == Init /\ [][NextAssets]_vars

\* _add_assets is called again on the list it has returned, with the same
\* assets and id_key: lines 377-385
add_assets_again(p) ==
    /\ call[p].pc = "returned" /\ call[p].op = "assets"
    /\ call[p].result = "ok" /\ call[p].again = "none"
    /\ LET r == add_assets_from(1, call[p].merged, call[p].assets,
                                call[p].id_key)
       IN
       call' = [call EXCEPT ![p] =
                  IF r.error # "none"
                  THEN [@ EXCEPT !.again = r.error]
                  ELSE [@ EXCEPT !.again = "ok", !.merged_again = r.objects]]
    /\ UNCHANGED <<authenticated, username, encoded_password, history>>

\* the asset merger applied to its own result
NextAssetsTwice ==
    \E p \in Procs :
        \/ (Quiescent /\ add_assets_call(p))
        \/ add_assets_again(p)
        \/ Return(p)

SpecAssetsTwice == Init /\ [][NextAssetsTwice]_vars

\* _parse_csv_response(text) is called: lines 403-418
parse_csv_call(p) ==
    /\ call[p].pc = "idle"
    /\ \E text \in CsvTexts :
         LET r == parse_csv_response(text)
             c == [IdleCall EXCEPT !.op = "csv", !.pc = "returned",
                                   !.text = text]
         IN
         call' = [call EXCEPT ![p] =
                    IF r.error # "none"
                    THEN [c EXCEPT !.result = r.error]
                    ELSE [c EXCEPT !.result = "ok", !.csv_data = r.csv_data]]
    /\ UNCHANGED <<authenticated, username, encoded_password, history>>

\* the CSV decoder on its own
NextCsv ==
    \E p \in Procs :
        \/ (Quiescent /\ parse_csv_call(p))
        \/ Return(p)

SpecCsv == Init /\ [][NextCsv]_vars

\* _encode_password(username, password) is called: lines 42-46
encode_password_call(p) ==
    /\ call[p].pc = "idle"
    /\ \E user \in Usernames, password \in Passwords :
         call' = [call EXCEPT ![p] =
                    [IdleCall EXCEPT !.op = "encode", !.pc = "returned",
                                     !.result = "ok",
                                     !.username = user,
                                     !.password = password,
                                     !.encoded = encode_password(user, password)]]
    /\ UNCHANGED <<authenticated, username, encoded_password, history>>

\* the credential encoder on its own; it is a static method without any
\* state, so a result may be kept while another call is made
NextEncode ==
    \E p \in Procs :
        \/ encode_password_call(p)
        \/ Return(p)

SpecEncode == Init /\ [][NextEncode]_vars

\* two _robust_get calls on one client without any synchronization, against
\* a server that answers 200 or 401 to a GET and accepts every login
NextConc ==
    \E p \in Procs :
        \/ /\ robust_get_entry(p)
           /\ call'[p].retries = GetDefaultRetries /\ call'[p].require_auth
        \/ /\ robust_get_send(p)
           /\ call'[p].gets[Len(call'[p].gets)] \in {St(200), St(401)}
        \/ /\ login_post(p)
           /\ call'[p].last_post = [exc |-> "none", status |-> 200,
                                    authcode |-> "code"]
        \/ login_settle(p)
        \/ Return(p)

SpecConc == Init /\ [][NextConc]_vars

(* ======================= properties ======================= *)

LoginErrors == {"Auth failure", "Login HTTP", "Login failed after retries"}

Last(seq) == seq[Len(seq)]

\* the number of entries of seq that satisfy Test
CountIf(seq, Test(_)) == Cardinality({i \in DOMAIN seq : Test(seq[i])})

Is401(o) == o = St(401)
\* the outcomes after which _robust_get sleeps and goes on
IsBackoff(o) == o.exc # "none" \/ o = St(429)

\* p has sent a GET in this step and got outcome o
Answered(p, o) ==
    /\ call[p].pc = "get_send"
    /\ call'[p].gets = Append(call[p].gets, o)

\* in this step p has not sent a POST, called _login, or started a sleep
NoLoginNoSleep(p) ==
    /\ call'[p].n_post = call[p].n_post
    /\ call'[p].n_upfront = call[p].n_upfront
    /\ call'[p].n_relogin = call[p].n_relogin
    /\ call'[p].n_sleep_get = call[p].n_sleep_get
    /\ call'[p].n_sleep_login = call[p].n_sleep_login
    /\ call'[p].n_settle = call[p].n_settle
    /\ ~call'[p].sleep.active

\* C1: in a _robust_get with the default retries = 3 whose first GET is
\* answered 401, _login is called once for the re-authentication; only a
\* failure of that _login ends the call there; once it has returned the GET
\* is sent again; and if that second GET is answered 200 the call returns
\* that response, still with exactly one re-login.
C1_ReloginThenSuccess ==
    \A p \in Procs :
        LET c == call[p] IN
        (c.op = "get" /\ c.retries = GetDefaultRetries
           /\ Len(c.gets) >= 1 /\ c.gets[1] = St(401)) =>
            /\ c.n_relogin = 1
            /\ (Len(c.gets) = 1 /\ c.pc = "done") => c.result \in LoginErrors
            /\ (Len(c.gets) = 1 /\ c.n_login_ok = c.n_upfront + 1) =>
                   (c.pc = "get_send" /\ c.result = "none")
            /\ (Len(c.gets) = 2 /\ c.gets[2] = St(200)) =>
                   (c.pc = "done" /\ c.result = "ok" /\ c.returned = 200)

C1_Witness ==
    \E p \in Procs :
        /\ call[p].op = "get" /\ call[p].retries = GetDefaultRetries
        /\ call[p].gets = <<St(401), St(200)>>
        /\ call[p].n_relogin = 1 /\ call[p].n_login_ok = call[p].n_upfront + 1
        /\ call[p].result = "ok" /\ call[p].returned = 200

\* C2 as stated: the first 401 does not use up an iteration of the retry
\* loop, so a _robust_get that ends with "Exceeded retry attempts" has sent
\* retries GETs besides the one answered by the first 401.
C2_FirstUnauthorizedIsFree ==
    \A p \in Procs :
        LET c == call[p] IN
        (c.op = "get" /\ c.result = "Exceeded retry attempts") =>
            Len(c.gets) - CountIf(c.gets, Is401) = c.retries

\* C2 amended: the first 401 uses up an iteration of the retry loop like
\* every other outcome: the GET after the re-login is sent in the next
\* iteration, every GET sent (the one answered 401 included) has its own
\* iteration, a call that ends with "Exceeded retry attempts" has sent
\* exactly retries GETs, and with retries = 1 a 401 followed by a
\* successful re-login ends with "Exceeded retry attempts", no second GET.
C2_FirstUnauthorizedUsesSlot ==
    \A p \in Procs :
        LET c == call[p] IN
        (c.op = "get") =>
            /\ c.pc = "get_send" => (c.attempt = Len(c.gets) /\ c.attempt < c.retries)
            /\ c.result = "Exceeded retry attempts" => Len(c.gets) = c.retries
            /\ (c.retries = 1 /\ c.gets = <<St(401)>> /\ c.n_login_ok = c.n_upfront + 1) =>
                   (c.pc = "done" /\ c.result = "Exceeded retry attempts")

C2_Witness ==
    \E p \in Procs :
        /\ call[p].op = "get" /\ call[p].retries = 1
        /\ call[p].gets = <<St(401)>>
        /\ call[p].n_relogin = 1 /\ call[p].n_login_ok = call[p].n_upfront + 1
        /\ call[p].result = "Exceeded retry attempts"

\* C3: a second 401 in one _robust_get ends the call at once with the
\* "401 repeated" error: it is the last GET of the call, _login was called
\* for a 401 only once, and no sleep was started for it (the sleeps of the
\* call are those of its 429 / timeout / connection-error outcomes).
C3_RepeatedUnauthorizedFails ==
    \A p \in Procs :
        LET c == call[p] IN
        (c.op = "get" /\ CountIf(c.gets, Is401) >= 2) =>
            /\ CountIf(c.gets, Is401) = 2
            /\ Last(c.gets) = St(401)
            /\ c.pc = "done"
            /\ c.result = "401 repeated after re-login"
            /\ c.n_relogin = 1
            /\ ~c.sleep.active
            /\ c.n_sleep_get = CountIf(c.gets, IsBackoff)

C3_Witness ==
    \E p \in Procs :
        /\ call[p].op = "get" /\ call[p].retries = 3
        /\ call[p].gets = <<St(401), St(401)>>
        /\ call[p].attempt + 1 < call[p].retries
        /\ call[p].result = "401 repeated after re-login"

\* C4: the step in which a GET of _robust_get is answered 403 ends the
\* call with the "403 Forbidden" error; that step sends no POST, calls no
\* _login, starts no sleep and leaves self.authenticated unchanged; and no
\* GET follows a 403.
C4_ForbiddenFailsAtOnce ==
    /\ [](\A p \in Procs :
             (\E i \in DOMAIN call[p].gets : call[p].gets[i] = St(403)) =>
                 /\ Last(call[p].gets) = St(403)
                 /\ call[p].pc = "done"
                 /\ call[p].result = "403 Forbidden")
    /\ [][\A p \in Procs :
             Answered(p, St(403)) =>
                 /\ call'[p].pc = "done"
                 /\ call'[p].result = "403 Forbidden"
                 /\ NoLoginNoSleep(p)
                 /\ authenticated' = authenticated]_vars

C4_Witness ==
    \E p \in Procs :
        /\ call[p].op = "get" /\ call[p].retries = 3
        /\ call[p].gets = <<St(403)>>
        /\ call[p].result = "403 Forbidden"
        /\ call[p].n_sleep_get = 0 /\ call[p].n_relogin = 0
        /\ authenticated

\* C5: in a _robust_get with retries = 3, a 429 on the first or second GET
\* does not end the call; while the call sleeps, the sleep lasts what
\* _calculate_backoff returns for the current attempt and the reset header
\* of the response; when the next GET is about to be sent the call has
\* slept once per 429 / timeout / connection error seen; and the outcomes
\* 429, 429, 200 end in the 200 response returned after exactly two sleeps.
C5_RateLimitedTwiceThenSuccess ==
    \A p \in Procs :
        LET c == call[p] IN
        (c.op = "get") =>
            /\ (c.retries = GetDefaultRetries
                  /\ (c.gets = <<St(429)>> \/ c.gets = <<St(429), St(429)>>)) =>
                   c.result = "none"
            /\ c.pc = "get_sleep" =>
                   /\ c.sleep.active
                   /\ c.sleep.attempt = Len(c.gets) - 1
                   /\ c.sleep.wait = calculate_backoff(
                          Len(c.gets) - 1,
                          IF Last(c.gets) = St(429) THEN c.sleep.header ELSE NoHeader,
                          c.sleep.now, c.sleep.jitter)
                   /\ c.n_sleep_get = CountIf(c.gets, IsBackoff)
            /\ c.pc = "get_send" =>
                   (~c.sleep.active /\ c.n_sleep_get = CountIf(c.gets, IsBackoff))
            /\ c.gets = <<St(429), St(429), St(200)>> =>
                   /\ c.pc = "done" /\ c.result = "ok" /\ c.returned = 200
                   /\ c.n_sleep_get = 2 /\ ~c.sleep.active

C5_Witness ==
    \E p \in Procs :
        /\ call[p].op = "get"
        /\ call[p].gets = <<St(429), St(429), St(200)>>
        /\ call[p].result = "ok" /\ call[p].n_sleep_get = 2

\* C6: the step in which a GET of _robust_get is answered with a status
\* other than 200, 401, 403 and 429 ends the call with the "Unhandled
\* Non-200" error, whatever the attempts left; that step sends no POST,
\* calls no _login and starts no sleep; and no GET follows such a status.
C6_OtherStatusFailsAtOnce ==
    /\ [](\A p \in Procs :
             (\E i \in DOMAIN call[p].gets :
                  call[p].gets[i] \in {St(s) : s \in OtherStatuses}) =>
                 /\ Last(call[p].gets) \in {St(s) : s \in OtherStatuses}
                 /\ call[p].pc = "done"
                 /\ call[p].result = "Unhandled Non-200 response")
    /\ [][\A p \in Procs : \A s \in OtherStatuses :
             Answered(p, St(s)) =>
                 /\ call'[p].pc = "done"
                 /\ call'[p].result = "Unhandled Non-200 response"
                 /\ NoLoginNoSleep(p)]_vars

C6_Witness ==
    \E p \in Procs :
        /\ call[p].op = "get" /\ call[p].retries = 3
        /\ call[p].gets = <<St(204)>>
        /\ call[p].attempt = 0
        /\ call[p].result = "Unhandled Non-200 response"

\* C7: a _robust_get never sends more than retries GETs; it returns a
\* response only when its last GET was answered 200, and that response is
\* the one returned; and a call that has used its whole budget without a
\* 200 or a fatal outcome (its last sleep or re-login being over) ends with
\* the "Exceeded retry attempts" error.
C7_BudgetAndResult ==
    \A p \in Procs :
        LET c == call[p] IN
        (c.op = "get") =>
            /\ Len(c.gets) <= c.retries
            /\ c.result = "ok" =>
                   (Len(c.gets) >= 1 /\ Last(c.gets) = St(200) /\ c.returned = 200)
            /\ (Len(c.gets) = c.retries /\ c.login_from = "none"
                  /\ ~c.sleep.active /\ c.n_login_ok = c.n_upfront + c.n_relogin
                  /\ \A i \in DOMAIN c.gets : (IsBackoff(c.gets[i]) \/ Is401(c.gets[i]))
                  /\ CountIf(c.gets, Is401) <= 1) =>
                   (c.pc = "done" /\ c.result = "Exceeded retry attempts")
            /\ c.result = "Exceeded retry attempts" =>
                   \A i \in DOMAIN c.gets : c.gets[i] # St(200)

C7_Witness ==
    \E p \in Procs :
        /\ call[p].op = "get" /\ call[p].retries = 3
        /\ call[p].gets = <<St(429), Ex("Timeout"), St(401)>>
        /\ call[p].result = "Exceeded retry attempts"

\* C8: in a _robust_get called with require_auth while self.authenticated
\* is false, _login is called once before the loop, it has returned before
\* the first GET is sent, and when it fails the call ends with its error
\* without any GET; in a _robust_get called while self.authenticated is
\* true, _login is not called before the loop and no POST precedes the
\* first GET.
C8_LoginBeforeFirstGet ==
    \A p \in Procs :
        LET c == call[p] IN
        (c.op = "get") =>
            /\ (c.require_auth /\ ~c.auth_at_entry) =>
                   /\ c.n_upfront = 1
                   /\ (c.pc = "get_send" /\ c.gets = <<>>) =>
                          (c.n_login_ok = 1 /\ c.n_post >= 1 /\ authenticated)
                   /\ Len(c.gets) >= 1 => c.n_login_ok >= 1
                   /\ (c.n_login_ok = 0 /\ c.pc = "done") =>
                          (c.result \in LoginErrors /\ c.gets = <<>>)
            /\ c.auth_at_entry =>
                   /\ c.n_upfront = 0
                   /\ c.gets = <<>> => c.n_post = 0

C8_Witness ==
    \E p \in Procs :
        /\ call[p].op = "get" /\ call[p].require_auth /\ ~call[p].auth_at_entry
        /\ call[p].n_upfront = 1 /\ call[p].n_login_ok = 1
        /\ Len(call[p].gets) = 1

\* C9: self.authenticated is false at construction, and it goes from false
\* to true only in a step in which a POST of _login was answered with
\* status 200 and a truthy auth code.
C9_AuthenticatedOnlyByLogin ==
    /\ ~authenticated
    /\ [][(~authenticated /\ authenticated') =>
             \E p \in Procs :
                 /\ call[p].pc = "login_post"
                 /\ call'[p].n_post = call[p].n_post + 1
                 /\ call'[p].last_post =
                        [exc |-> "none", status |-> 200, authcode |-> "code"]]_vars

C9_Witness ==
    /\ authenticated
    /\ \E p \in Procs :
           /\ call[p].pc = "login_settle"
           /\ call[p].last_post = [exc |-> "none", status |-> 200, authcode |-> "code"]
           /\ ~call[p].auth_at_entry

\* C10 as stated: once a GET of _robust_get has been answered 401 and the
\* response handled, self.authenticated is false; in particular it is false
\* when the call has failed on a repeated 401.
C10_UnauthorizedClearsFlag ==
    [][\A p \in Procs :
          Answered(p, St(401)) => ~authenticated']_vars

\* p has sent a POST in this step
Posted(p) ==
    /\ call[p].pc = "login_post"
    /\ call'[p].n_post = call[p].n_post + 1

\* the outcome of a POST after which _login sleeps and goes on
IsLoginBackoff(post) == post.exc # "none" \/ post.status = 429

\* C11: when a _login called by _robust_get (before the loop, or for a 401)
\* has ended in one of its three errors, self.authenticated is false; the
\* same holds for a _login called on its own while the flag was false.
C11_FailedLoginLeavesFlagFalse ==
    \A p \in Procs :
        LET c == call[p] IN
        (c.pc = "done" /\ c.result \in LoginErrors
           /\ (c.op = "get" \/ ~c.auth_at_entry)) =>
            ~authenticated

\* a re-login that failed on a client that was authenticated before the 401
C11_Witness ==
    \E p \in Procs :
        /\ call[p].op = "get" /\ call[p].auth_at_entry
        /\ call[p].n_relogin = 1 /\ call[p].n_upfront = 0
        /\ call[p].pc = "done" /\ call[p].result = "Auth failure"
        /\ ~authenticated

\* C12: in _login, the step in which a POST is answered 429 or ends in a
\* timeout / connection error starts exactly one backoff sleep, of the
\* duration _calculate_backoff gives for the current attempt, and raises
\* nothing; when that sleep is over the attempt index has gone up by one
\* and the POST is sent again if the index is below retries, else _login
\* raises "Login failed after retries".  A POST is only sent with an
\* attempt index below retries, so a _login sends at most retries POSTs.
C12_LoginRetries ==
    /\ [](\A p \in Procs :
             LET c == call[p] IN
             /\ c.pc \in {"login_post", "login_sleep"} =>
                    c.login_attempt < c.login_retries
             /\ c.pc = "login_sleep" =>
                    /\ IsLoginBackoff(c.last_post)
                    /\ c.sleep.active
                    /\ c.sleep.wait = calculate_backoff(
                           c.login_attempt,
                           IF c.last_post.status = 429 THEN c.sleep.header ELSE NoHeader,
                           c.sleep.now, c.sleep.jitter)
             /\ c.op = "login" =>
                    /\ c.n_post <= c.login_retries
                    /\ c.pc = "login_post" => c.n_post = c.login_attempt
                    /\ c.result = "Login failed after retries" =>
                           (c.n_post = c.login_retries
                              /\ c.n_sleep_login = c.login_retries)
             /\ c.op = "get" =>
                    c.n_post <= (c.n_upfront + c.n_relogin) * LoginDefaultRetries)
    /\ [][\A p \in Procs :
             /\ (Posted(p) /\ IsLoginBackoff(call'[p].last_post)) =>
                    /\ call'[p].pc = "login_sleep"
                    /\ call'[p].result = "none"
                    /\ call'[p].n_sleep_login = call[p].n_sleep_login + 1
                    /\ call'[p].login_attempt = call[p].login_attempt
             /\ call[p].pc = "login_sleep" /\ call'[p] # call[p] =>
                    IF call[p].login_attempt + 1 < call[p].login_retries
                    THEN /\ call'[p].pc = "login_post"
                         /\ call'[p].login_attempt = call[p].login_attempt + 1
                         /\ call'[p].n_post = call[p].n_post
                    ELSE /\ call'[p].pc = "done"
                         /\ call'[p].result = "Login failed after retries"]_vars

\* a _login with retries = 3 that saw a 429, a timeout and a connection error
C12_Witness ==
    \E p \in Procs :
        /\ call[p].op = "login" /\ call[p].login_retries = 3
        /\ call[p].n_post = 3 /\ call[p].n_sleep_login = 3
        /\ call[p].last_post.exc = "ConnectionError"
        /\ call[p].result = "Login failed after retries"

\* C13: the step in which a POST of _login is answered 200 without a
\* truthy auth code, or with a status other than 200 and 429, ends the
\* call with an auth error ("Auth failure", "Login HTTP"), whatever the
\* attempts left; that step starts no sleep, and no POST follows it.
C13_LoginFailsAtOnce ==
    /\ [](\A p \in Procs :
             LET c == call[p] IN
             (c.last_post.exc = "none" /\ c.last_post.status \notin {0, 429}
                /\ ~(c.last_post.status = 200 /\ c.last_post.authcode = "code")) =>
                 /\ c.pc = "done"
                 /\ c.result = IF c.last_post.status = 200
                               THEN "Auth failure" ELSE "Login HTTP"
                 /\ ~c.sleep.active)
    /\ [][\A p \in Procs :
             (Posted(p) /\ call'[p].last_post.exc = "none"
                /\ call'[p].last_post.status # 429
                /\ ~(call'[p].last_post.status = 200
                       /\ call'[p].last_post.authcode = "code")) =>
                 /\ call'[p].pc = "done"
                 /\ call'[p].result \in {"Auth failure", "Login HTTP"}
                 /\ call'[p].n_sleep_login = call[p].n_sleep_login
                 /\ call'[p].n_settle = call[p].n_settle
                 /\ ~call'[p].sleep.active
                 /\ authenticated' = authenticated]_vars

\* the first POST of a _login with retries = 3 is answered 200 with an
\* empty auth code
C13_Witness ==
    \E p \in Procs :
        /\ call[p].op = "login" /\ call[p].login_retries = 3
        /\ call[p].n_post = 1 /\ call[p].login_attempt = 0
        /\ call[p].last_post = [exc |-> "none", status |-> 200, authcode |-> "empty"]
        /\ call[p].result = "Auth failure" /\ call[p].n_sleep_login = 0

\* the outcomes _robust_get absorbs: timeout, connection error, 429, 401
IsTransient(o) == IsBackoff(o) \/ Is401(o)

\* a _robust_get that has sent a GET, has attempts left, and has seen
\* nothing but transient outcomes, among them at most one 401
OnlyTransientSoFar(c) ==
    /\ c.op = "get"
    /\ Len(c.gets) >= 1 /\ Len(c.gets) < c.retries
    /\ \A i \in DOMAIN c.gets : IsTransient(c.gets[i])
    /\ CountIf(c.gets, Is401) <= 1

\* C14 as stated: a _robust_get that has attempts left and has seen only
\* timeouts, connection errors, 429s and its first 401 has raised nothing.
C14_TransientNeverSurfaces ==
    \A p \in Procs : OnlyTransientSoFar(call[p]) => call[p].result = "none"

\* C14 amended: such a call has raised nothing and is sleeping, about to
\* send the next GET or re-logging in, unless the re-login started by its
\* first 401 has failed: then the error of _login has reached the caller
\* and no further GET was sent.
C14_TransientAbsorbedUnlessReloginFails ==
    \A p \in Procs :
        LET c == call[p] IN
        OnlyTransientSoFar(c) =>
            \/ /\ c.result = "none"
               /\ c.pc \in {"get_sleep", "get_send", "login_post",
                            "login_sleep", "login_settle"}
               /\ c.pc = "get_sleep" => IsBackoff(Last(c.gets))
               /\ c.pc \in {"login_post", "login_sleep", "login_settle"} =>
                      (Last(c.gets) = St(401) /\ c.login_from = "relogin")
            \/ /\ c.pc = "done" /\ c.result \in LoginErrors
               /\ Last(c.gets) = St(401)
               /\ c.n_relogin = 1 /\ c.n_login_ok = c.n_upfront

\* 429, timeout, first 401 with a successful re-login: the next GET is due
C14_Witness ==
    \E p \in Procs :
        /\ call[p].op = "get" /\ call[p].retries = MaxRetries
        /\ Len(call[p].gets) = MaxRetries - 1
        /\ Last(call[p].gets) = St(401)
        /\ call[p].n_login_ok = call[p].n_upfront + 1
        /\ call[p].pc = "get_send" /\ call[p].result = "none"

\* C15 as stated: whatever the attempt index and the reset header,
\* _calculate_backoff returns at least 1.0 s and at most 60.0 s.
C15_BackoffBetween1And60 ==
    \A p \in Procs :
        call[p].op = "backoff" =>
            (call[p].sleep.wait >= 1000 /\ call[p].sleep.wait <= 60000)

\* a frame of _get_resource whose first response body has been classified
Classified(c) == c.outer = "resource" /\ c.body # NoBody

\* the body is a mapping with a "link" field
IsLinkBody(body) == body.t = "dict" /\ "link" \in body.keys

\* C16 as stated: the first response body of _get_resource is a Link if and
\* only if it is not a sequence and holds a field named "link", the link
\* being that field's value; every other body is Inline and is returned
\* unchanged.
C16_LinkIffNonSequenceWithLinkField ==
    \A p \in Procs :
        LET c == call[p] IN
        Classified(c) =>
            /\ c.is_link <=> (c.body.t # "list" /\ "link" \in c.body.keys)
            /\ c.is_link => c.link = c.body.link
            /\ ~c.is_link => /\ c.pc = "returned" /\ c.result = "ok"
                              /\ c.decoded = "inline" /\ c.data = c.body

\* C17: _get_resource makes one _robust_get call when the first body is
\* Inline and two when it is a Link, never a third, and what the link
\* response decodes to as JSON is returned as it is, a mapping with a "link"
\* field included.
C17_LinkFollowedOnce ==
    \A p \in Procs :
        LET c == call[p] IN
        c.outer = "resource" =>
            /\ c.n_get_calls \in {1, 2}
            /\ c.body = NoBody => c.n_get_calls = 1
            /\ (Classified(c) /\ ~IsLinkBody(c.body)) =>
                   (c.pc = "returned" /\ c.n_get_calls = 1)
            /\ (Classified(c) /\ IsLinkBody(c.body)) =>
                   (c.n_get_calls = 2 /\ c.stage = "link")
            /\ (c.pc = "returned" /\ c.decoded = "json") =>
                   (c.data = c.link_body /\ c.n_get_calls = 2)

\* the link response is itself a mapping with a "link" field, and is returned
C17_Witness ==
    \E p \in Procs :
        /\ call[p].op = "resource" /\ call[p].pc = "returned"
        /\ IsLinkBody(call[p].body) /\ IsLinkBody(call[p].link_body)
        /\ call[p].data = call[p].link_body /\ call[p].n_get_calls = 2

WellFormed(chunks) == chunks.t = "dict" /\ chunks.has_base /\ chunks.has_names

\* the records of the named chunk files, last file last
RECURSIVE RecordsInOrder(_, _)
RecordsInOrder(base, names) ==
    IF names = <<>> THEN <<>>
    ELSE RecordsInOrder(base, SubSeq(names, 1, Len(names) - 1))
             \o ChunkData(base \o names[Len(names)])

\* C19: on a well-formed manifest _get_chunks requests base URL + file name
\* for the file names in manifest order, and what it returns is the records
\* of the chunk files, file after file in manifest order, each file's
\* records in their own order.
C19_ChunksInManifestOrder ==
    \A p \in Procs :
        LET c == call[p] IN
        (c.op = "chunks" /\ WellFormed(c.chunks)) =>
            /\ Len(c.fetched) <= Len(c.chunks.names)
            /\ \A i \in DOMAIN c.fetched :
                   c.fetched[i] = c.chunks.base \o c.chunks.names[i]
            /\ (c.pc = "returned" /\ c.result = "ok") =>
                   /\ Len(c.fetched) = Len(c.chunks.names)
                   /\ c.output = RecordsInOrder(c.chunks.base, c.chunks.names)

\* the manifest (a.json, b.json) has given 1, 2, 3
C19_Witness ==
    \E p \in Procs :
        /\ call[p].op = "chunks" /\ call[p].pc = "returned"
        /\ call[p].chunks.names = <<"a.json", "b.json">>
        /\ call[p].fetched = <<"http://x/a.json", "http://x/b.json">>
        /\ call[p].output = <<1, 2, 3>>

\* C20 as stated: on None, on a value that is not a dict, and on a dict
\* without the base URL or without the list of file names, _get_chunks
\* returns the empty list, raises nothing and sends no GET.
C20_IllFormedGivesEmpty ==
    \A p \in Procs :
        LET c == call[p] IN
        (c.op = "chunks" /\ ~WellFormed(c.chunks)) =>
            /\ c.pc = "returned" /\ c.result = "ok"
            /\ c.output = <<>> /\ c.fetched = <<>>

\* the asset an object is merged with, when it has one
HasAsset(obj, assets, id_key) ==
    id_key \in DOMAIN obj /\ Str(obj[id_key]) \in DOMAIN assets

\* C21: _add_assets gives every object every field of
\* assets[str(obj[id_key])], the asset's value replacing the object's own
\* on a shared key and the object's other fields being kept; when the text
\* of some object's id is not a key of assets the call fails with KeyError
\* and does not skip the object.
C21_MergeOrLookupError ==
    \A p \in Procs :
        LET c == call[p] IN
        c.op = "assets" =>
            /\ (\A i \in DOMAIN c.objects :
                    HasAsset(c.objects[i], c.assets, c.id_key)) =>
                 /\ c.result = "ok"
                 /\ Len(c.merged) = Len(c.objects)
                 /\ \A i \in DOMAIN c.objects :
                      LET obj == c.objects[i]
                          a == c.assets[Str(obj[c.id_key])]
                      IN
                      /\ DOMAIN c.merged[i] = DOMAIN obj \cup DOMAIN a
                      /\ \A key \in DOMAIN a : c.merged[i][key] = a[key]
                      /\ \A key \in DOMAIN obj \ DOMAIN a :
                            c.merged[i][key] = obj[key]
            /\ (\E i \in DOMAIN c.objects :
                    /\ c.id_key \in DOMAIN c.objects[i]
                    /\ Str(c.objects[i][c.id_key]) \notin DOMAIN c.assets) =>
                 (c.result = "KeyError" /\ c.merged = <<>>)

\* object 12 has taken the asset's name and logo and kept its id
C21_Witness ==
    \E p \in Procs :
        /\ call[p].op = "assets" /\ call[p].result = "ok"
        /\ Len(call[p].objects) = 2
        /\ call[p].objects[2] = [car_id |-> 12, name |-> "n12"]
        /\ call[p].merged[2] = [car_id |-> 12, name |-> "a12", logo |-> "l12"]

\* the numbers of the rows after the first that have as many columns as it
MatchingRows(rows) ==
    LET Matches(i) == Len(rows[i]) = Len(rows[1]) IN
    SelectSeq([i \in 1..(Len(rows) - 1) |-> i + 1], Matches)

\* C22: _parse_csv_response returns one dict per row after the first that
\* has as many columns as the first, in the order of the text and whatever
\* rows of another length lie between them; the keys are the lower-cased
\* cells of the first row and the values are the cells of the row as they
\* stand in the text.  (A text without any row has no first row: next()
\* raises StopIteration.)
C22_CsvRowsByHeader ==
    \A p \in Procs :
        LET c == call[p]
            rows == csv_reader(c.text)
        IN
        c.op = "csv" =>
            IF rows = <<>> THEN c.result = "StopIteration"
            ELSE
            LET matching == MatchingRows(rows)
                names == [i \in DOMAIN rows[1] |-> Lower(rows[1][i])]
            IN
            /\ c.result = "ok"
            /\ Len(c.csv_data) = Len(matching)
            /\ \A j \in DOMAIN matching :
                 LET row == rows[matching[j]] IN
                 /\ DOMAIN c.csv_data[j] = {names[i] : i \in DOMAIN names}
                 /\ \A i \in DOMAIN names :
                       (\A k \in DOMAIN names : names[k] = names[i] => k <= i)
                           => c.csv_data[j][names[i]] = row[i]

\* header "I", a row of two columns, then the row "I": the row of two
\* columns is skipped, the key is "i" and the value stays "I"
C22_Witness ==
    \E p \in Procs :
        /\ call[p].op = "csv" /\ call[p].result = "ok"
        /\ call[p].text = <<"I", "\n", ",", "\n", "I">>
        /\ Len(call[p].csv_data) = 1
        /\ call[p].csv_data[1][<<"i">>] = <<"I">>

\* two texts that differ in the case of their letters at most
SameButCase(s, t) == Lower(s) = Lower(t)

\* C23 as stated: of two results of _encode_password for one password and
\* two usernames that differ in case only, neither equals the other.
C23_UsernameCaseChangesSecret ==
    \A p, q \in Procs :
        (/\ call[p].op = "encode" /\ call[q].op = "encode"
         /\ call[p].password = call[q].password
         /\ call[p].username # call[q].username
         /\ SameButCase(call[p].username, call[q].username))
            => call[p].encoded # call[q].encoded

\* C23 amended: for one password, two usernames give the same secret
\* exactly when they differ in case at most; for one username, two
\* passwords that differ, be it in case only, give different secrets.
C23_UsernameCaseIgnored ==
    \A p, q \in Procs :
        (call[p].op = "encode" /\ call[q].op = "encode") =>
            /\ call[p].password = call[q].password =>
                  (call[p].encoded = call[q].encoded
                      <=> SameButCase(call[p].username, call[q].username))
            /\ (call[p].username = call[q].username
                   /\ call[p].password # call[q].password) =>
                  call[p].encoded # call[q].encoded

\* "Id" and "id" with the same password have given the same secret
C23_Witness ==
    \E p, q \in Procs :
        /\ call[p].op = "encode" /\ call[q].op = "encode"
        /\ call[p].username = <<"I", "d">> /\ call[q].username = <<"i", "d">>
        /\ call[p].password = call[q].password
        /\ call[p].encoded = call[q].encoded

\* C24: a _robust_get call that runs after a _robust_get call which had
\* re-logged in on a 401 has ended starts with attempted_relogin false: the
\* flag is set only by a 401 of its own, its own first 401 makes it log
\* in again, and "401 repeated" takes two 401s of its own.
C24_ReloginFlagPerCall ==
    \A p \in Procs :
        LET c == call[p] IN
        (history.relogin_ended /\ c.op = "get") =>
            /\ c.n_relogin <= 1
            /\ c.attempted_relogin <=> (c.n_relogin = 1)
            /\ CountIf(c.gets, Is401) >= 1 <=> c.n_relogin = 1
            /\ c.result = "401 repeated after re-login" =>
                  CountIf(c.gets, Is401) = 2

\* the call before had re-logged in; this one has met its first 401 and is
\* about to POST its own login
C24_Witness ==
    \E p \in Procs :
        /\ history.relogin_ended
        /\ call[p].op = "get" /\ call[p].gets = <<St(401)>>
        /\ call[p].pc = "login_post" /\ call[p].login_from = "relogin"

\* C25: nothing coordinates two _robust_get calls on one client: every call
\* that meets a 401 starts a login of its own, whatever the other call is
\* doing, and its first 401 sets the flag to False, whatever set the flag
\* before.  Hence both crossings can happen: two logins for one stale
\* session, and a flag set to False after the other call's re-login had set
\* it to True.
C25_EveryCallReloginsAlone ==
    /\ [](\A p \in Procs :
             (call[p].op = "get" /\ CountIf(call[p].gets, Is401) >= 1) =>
                 call[p].n_relogin = 1)
    /\ [][\A p \in Procs :
             (Answered(p, St(401)) /\ ~call[p].attempted_relogin) =>
                 (~authenticated' /\ InRelogin(call'[p]))]_vars

\* both crossings have happened; right now one call is re-logging in and has
\* put the flag back to False, which the other call's re-login had set
C25_Witness ==
    /\ history.double_login /\ history.reset_after_login
    /\ ~authenticated
    /\ \E p, q \in Procs :
         p # q /\ InRelogin(call[p]) /\ ReloggedIn(call[q])

C27_ExponentialPath ==
    \A p \in Procs :
        LET s == call[p].sleep
            base == Pow2(s.attempt) * 1000
        IN
        (call[p].op = "backoff" /\ ~s.reset.present) =>
            /\ base + 1000 <= 60000 =>
                  (base <= s.wait /\ s.wait <= base + 1000)
            /\ s.wait <= 60000
            /\ base >= 60000 => s.wait = 60000
            /\ s.wait >= 1000

\* attempt 5 with a draw of 0.4 gives 32.4 s
C27_Witness ==
    \E p \in Procs :
        /\ call[p].op = "backoff" /\ ~call[p].sleep.reset.present
        /\ call[p].sleep.attempt = 5 /\ call[p].sleep.jitter = 400
        /\ call[p].sleep.wait = 32400

\* C28: while _robust_get sleeps, the wait after a 429 is the one of the
\* reset timestamp when the response has one and the exponential one of
\* the current attempt index when it has none, and the wait after a timeout
\* or a connection error is the exponential one of the current attempt
\* index.  The x-ratelimit-remaining and x-ratelimit-limit headers change
\* nothing: a sleep follows a 429 or an exception and nothing else, and a
\* 200 is returned at once.
C28_BackoffSource ==
    \A p \in Procs :
        LET c == call[p]
            s == c.sleep
            exponential == Min(Pow2(Len(c.gets) - 1) * 1000 + s.jitter, 60000)
            by_reset == Max(ParseInt(s.header.text) * 1000 - s.now + 500, 1000)
        IN
        c.op = "get" =>
            /\ c.pc = "get_sleep" =>
                 /\ IsBackoff(Last(c.gets))
                 /\ s.attempt = c.attempt /\ c.attempt = Len(c.gets) - 1
                 /\ Last(c.gets) = St(429) =>
                       s.wait = IF s.header.present /\ s.header.text # <<>>
                                THEN by_reset ELSE exponential
                 /\ Last(c.gets).exc # "none" => s.wait = exponential
            /\ c.n_sleep_get = CountIf(c.gets, IsBackoff)
            /\ (c.gets # <<>> /\ Last(c.gets) = St(200)) =>
                  (c.pc = "done" /\ c.result = "ok")

\* second attempt, a 429 with a reset at 99 s and no request left of the
\* limit: the wait is the one of the reset
C28_Witness ==
    \E p \in Procs :
        /\ call[p].op = "get" /\ call[p].pc = "get_sleep"
        /\ call[p].gets = <<Ex("Timeout"), St(429)>>
        /\ call[p].rate.remaining = Header(<<0>>)
        /\ call[p].sleep.header = Header(<<9, 9>>)
        /\ call[p].sleep.now = 10200 /\ call[p].sleep.wait = 89300

\* C29: _get_chunks stays outside _login and the retry loop: it posts no
\* login, sleeps never and leaves self.authenticated alone; it sends one
\* GET per file name of the manifest, and when a GET fails the error goes
\* to the caller at once: that URL is not requested again, no further URL
\* is requested and nothing of the chunks fetched so far is returned.
C29_ChunksOutsideRetryLoop ==
    /\ [](\A p \in Procs :
             LET c == call[p] IN
             c.op = "chunks" =>
                 /\ c.n_post = 0 /\ c.n_upfront = 0 /\ c.n_relogin = 0
                 /\ c.n_sleep_get = 0 /\ c.n_sleep_login = 0 /\ c.n_settle = 0
                 /\ c.sleep = NoSleep
                 /\ Len(c.fetched) <= Len(c.urls)
                 /\ \A i \in DOMAIN c.fetched : c.fetched[i] = c.urls[i]
                 /\ (c.result = "ok" /\ WellFormed(c.chunks)) =>
                       Len(c.fetched) = Len(c.chunks.names)
                 /\ c.result = "ok" => Len(c.list_of_chunks) = Len(c.urls)
                 /\ Len(c.fetched) # Len(c.list_of_chunks) =>
                       c.result \in ChunkOutcomes \ {"json"}
                 /\ c.result \in ChunkOutcomes \ {"json"} =>
                       /\ c.pc = "done" /\ c.output = <<>>
                       /\ Len(c.fetched) = Len(c.list_of_chunks) + 1)
    /\ [][\A p \in Procs :
             (call[p].op = "chunks" \/ call'[p].op = "chunks") =>
                 /\ authenticated' = authenticated
                 /\ call[p].result \in ChunkOutcomes \ {"json"} =>
                       call'[p] = IdleCall]_vars

\* the first chunk was fetched, the GET of the second has timed out
C29_Witness ==
    \E p \in Procs :
        /\ call[p].op = "chunks" /\ call[p].result = "Timeout"
        /\ Len(call[p].urls) = 2 /\ Len(call[p].list_of_chunks) = 1
        /\ Len(call[p].fetched) = 2 /\ call[p].output = <<>>

\* C30: self.username and self.encoded_password are what the constructor
\* made of its arguments and no step of _login, _robust_get, _get_resource
\* or _get_chunks changes them; every login POST, the one of a re-login
\* included, carries that username as email and that secret as password.
C30_CredentialsFixed ==
    /\ [](\E made \in Constructions :
             /\ username = made.username
             /\ encoded_password = encode_password(made.username, made.password))
    /\ [][username' = username /\ encoded_password' = encoded_password]_vars
    /\ [](\A p \in Procs :
             call[p].n_post > 0 =>
                 /\ call[p].posted.email = username
                 /\ call[p].posted.password = encoded_password)

\* the client of user "Id" has posted its second login, a re-login
C30_Witness ==
    \E p \in Procs :
        /\ username = <<"I", "d">>
        /\ call[p].op = "get" /\ call[p].n_relogin = 1 /\ call[p].n_post = 2
        /\ call[p].posted = [email |-> <<"I", "d">>,
                             password |-> encode_password(<<"I", "d">>, <<"i">>)]

\* C31: in single-threaded use, when a _robust_get called with require_auth
\* true returns a response, self.authenticated is True at that moment:
\* the flag was True on entry or the up-front _login set it, and if a 401
\* cleared it the re-login has set it again before the next GET.
C31_AuthenticatedAtReturn ==
    \A p \in Procs :
        LET c == call[p] IN
        (c.op = "get" /\ c.require_auth /\ c.pc = "done" /\ c.result = "ok") =>
            /\ authenticated
            /\ c.returned = 200
            /\ c.auth_at_entry \/ c.n_upfront = 1
            /\ c.n_login_ok = c.n_upfront + c.n_relogin

C31_Witness ==
    \E p \in Procs :
        /\ call[p].op = "get" /\ call[p].require_auth
        /\ ~call[p].auth_at_entry
        /\ call[p].gets = <<St(401), St(200)>>
        /\ call[p].pc = "done" /\ call[p].result = "ok"
        /\ authenticated

\* C32: within one _robust_get call _login is called at most twice, at most
\* once up front (line 196) and at most once for a 401 (line 223, for the
\* first 401 only); each of these _login calls has the default budget of 3
\* POSTs whatever the retries of the _robust_get call; so one _robust_get
\* call sends at most 6 login POSTs.
C32_LoginsPerGet ==
    \A p \in Procs :
        LET c == call[p] IN
        (c.op = "get") =>
            /\ c.n_upfront <= 1 /\ c.n_relogin <= 1
            /\ c.n_upfront = 1 => (c.require_auth /\ ~c.auth_at_entry)
            /\ c.n_relogin = 1 => CountIf(c.gets, Is401) >= 1
            /\ (c.n_upfront + c.n_relogin > 0) =>
                   c.login_retries = LoginDefaultRetries
            /\ c.n_post <= LoginDefaultRetries * (c.n_upfront + c.n_relogin)
            /\ c.n_post <= 2 * LoginDefaultRetries
            /\ c.n_post <= 6

C32_Witness ==
    \E p \in Procs :
        /\ call[p].op = "get" /\ call[p].retries = 1
        /\ call[p].n_upfront = 1 /\ call[p].n_relogin = 1
        /\ call[p].n_post = 6

\* C33: a 401 starts the re-login also in a _robust_get called with
\* require_auth false: the call has cleared self.authenticated and called
\* _login (never up front, once for the 401); every POST of that _login
\* carries the credentials of the client; a failure of that _login ends the
\* call with its login error; and once it has returned, the GET is sent
\* again if the budget allows.
C33_ReloginWithoutRequireAuth ==
    \A p \in Procs :
        LET c == call[p] IN
        (c.op = "get" /\ ~c.require_auth /\ CountIf(c.gets, Is401) >= 1) =>
            /\ c.n_upfront = 0 /\ c.n_relogin = 1
            /\ c.n_settle = 0 => ~authenticated
            /\ c.n_post >= 1 =>
                   c.posted = [email |-> username, password |-> encoded_password]
            /\ (Len(c.gets) = 1 /\ c.pc = "done") =>
                   \/ c.result \in LoginErrors
                   \/ c.retries = 1 /\ c.result = "Exceeded retry attempts"
            /\ (Len(c.gets) = 1 /\ c.n_login_ok = 1 /\ c.retries > 1) =>
                   (c.pc = "get_send" /\ c.attempt = 1)

C33_Witness ==
    \E p \in Procs :
        /\ call[p].op = "get" /\ ~call[p].require_auth
        /\ call[p].gets = <<St(401)>>
        /\ call[p].n_relogin = 1 /\ call[p].n_post >= 1
        /\ call[p].posted = [email |-> username, password |-> encoded_password]
        /\ call[p].pc = "done" /\ call[p].result \in LoginErrors
        /\ ~authenticated

\* the numbers of GETs, POSTs and sleeps of a call stay within what its
\* budgets allow
BoundedWork(c) ==
    /\ c.op = "get" =>
          /\ Len(c.gets) <= c.retries
          /\ c.n_sleep_get <= Len(c.gets)
          /\ c.n_post <= 2 * LoginDefaultRetries
          /\ c.n_settle <= 2
    /\ c.op = "login" =>
          /\ Len(c.gets) = 0 /\ c.n_sleep_get = 0
          /\ c.n_post <= c.login_retries
          /\ c.n_settle <= 1
    /\ c.n_sleep_login <= c.n_post

\* C34: every _robust_get call and every _login call terminates, provided
\* each network call and each sleep returns: whatever the server answers,
\* the call ends (with a response or an error) and has by then made no more
\* GETs, POSTs and sleeps than its budgets allow.
C34_CallsTerminate ==
    /\ [](\A p \in Procs : BoundedWork(call[p]))
    /\ \A p \in Procs :
         (call[p].op \in {"get", "login"}) ~>
             (call[p].pc = "done" /\ call[p].result # "none")

C34_Witness ==
    \E p \in Procs :
        /\ call[p].op = "get" /\ call[p].retries = 3
        /\ call[p].n_post = 6 /\ Len(call[p].gets) = 3
        /\ call[p].n_sleep_get = 2 /\ call[p].n_sleep_login = 4
        /\ call[p].pc = "done" /\ call[p].result = "Exceeded retry attempts"

\* the POSTs of the call that were answered by something else than a 429,
\* a timeout or a connection error: each has ended a _login, by its
\* success (followed by the 0.5 s pause) or by an error
FinalPosts(c) ==
    c.n_settle + (IF c.result \in {"Auth failure", "Login HTTP"} THEN 1 ELSE 0)

\* C35: in _robust_get and in _login a backoff sleep is made after every
\* 429, timeout or connection error, the one of the last attempt included:
\* the sleeps made are as many as these outcomes, the call is in a sleep
\* right after such an outcome whatever the attempt, and the "exceeded
\* retries" error of a call whose last request had such an outcome is
\* raised out of that sleep.
C35_SleepAfterEveryBackoffOutcome ==
    /\ [](\A p \in Procs :
            LET c == call[p] IN
            (c.op \in {"get", "login"}) =>
                /\ c.n_sleep_get = CountIf(c.gets, IsBackoff)
                /\ c.n_sleep_login = c.n_post - FinalPosts(c)
                /\ (c.pc \in {"get_sleep", "login_sleep"}) =>
                       (c.sleep.active /\ c.sleep.wait > 0)
                /\ c.pc = "get_sleep" =>
                       (IsBackoff(Last(c.gets)) /\ c.attempt = Len(c.gets) - 1)
                /\ c.pc = "login_sleep" =>
                       (IsLoginBackoff(c.last_post) /\ c.login_attempt < c.login_retries))
    /\ [][\A p \in Procs :
            LET c == call[p]
                d == call'[p] IN
            /\ (c.pc = "get_send" /\ Len(d.gets) = Len(c.gets) + 1
                   /\ IsBackoff(Last(d.gets))) => d.pc = "get_sleep"
            /\ (c.pc = "login_post" /\ d.n_post = c.n_post + 1
                   /\ IsLoginBackoff(d.last_post)) => d.pc = "login_sleep"
            /\ (c.result = "none" /\ d.result = "Exceeded retry attempts"
                   /\ c.retries > 0 /\ IsBackoff(Last(c.gets))) =>
                   (c.pc = "get_sleep" /\ c.attempt + 1 = c.retries)
            /\ (c.result = "none" /\ d.result = "Login failed after retries"
                   /\ c.login_retries > 0) =>
                   (c.pc = "login_sleep" /\ c.login_attempt + 1 = c.login_retries)
      ]_vars

C35_Witness ==
    \E p \in Procs :
        /\ call[p].op = "get" /\ call[p].retries = 2
        /\ call[p].gets = <<St(429), Ex("Timeout")>>
        /\ call[p].n_sleep_get = 2
        /\ call[p].pc = "done" /\ call[p].result = "Exceeded retry attempts"

\* obj with the fields of the asset a copied onto it
Enriched(after, obj, a) ==
    /\ DOMAIN after = DOMAIN obj \cup DOMAIN a
    /\ \A key \in DOMAIN a : after[key] = a[key]
    /\ \A key \in DOMAIN obj \ DOMAIN a : after[key] = obj[key]

\* the objects of the list whose lookup fails, by their place in it
FailingPlaces(c) ==
    {i \in DOMAIN c.objects : ~HasAsset(c.objects[i], c.assets, c.id_key)}

\* C36: _add_assets writes into the objects of the caller's list and
\* returns that list: the list returned is the caller's list as the call
\* has left it; when the lookup fails at some object, every object before
\* it in the list has been enriched and stays so, and that object and every
\* object after it are as they were.
C36_MergeInPlace ==
    \A p \in Procs :
        LET c == call[p]
            failing == FailingPlaces(c)
        IN
        c.op = "assets" =>
            /\ Len(c.objects_after) = Len(c.objects)
            /\ failing = {} =>
                  /\ c.result = "ok" /\ c.merged = c.objects_after
                  /\ \A i \in DOMAIN c.objects :
                        Enriched(c.objects_after[i], c.objects[i],
                                 c.assets[Str(c.objects[i][c.id_key])])
            /\ failing # {} =>
                  LET k == CHOOSE i \in failing : \A j \in failing : i <= j IN
                  /\ c.result = "KeyError" /\ c.merged = <<>>
                  /\ \A i \in 1..(k - 1) :
                        Enriched(c.objects_after[i], c.objects[i],
                                 c.assets[Str(c.objects[i][c.id_key])])
                  /\ \A i \in k..Len(c.objects) :
                        c.objects_after[i] = c.objects[i]

\* the lookup fails at the second of three objects: the first has its
\* logo, the third, which has an asset, has not
C36_Witness ==
    \E p \in Procs :
        /\ call[p].op = "assets" /\ call[p].result = "KeyError"
        /\ call[p].objects = << [car_id |-> 1, name |-> "n1"],
                                [car_id |-> 3, name |-> "n3"],
                                [car_id |-> 12, name |-> "n12"] >>
        /\ call[p].objects_after = << [car_id |-> 1, name |-> "n1", logo |-> "l1"],
                                      [car_id |-> 3, name |-> "n3"],
                                      [car_id |-> 12, name |-> "n12"] >>

\* no asset found for an object of the call holds the id field
NoIdInMatched(c) ==
    \A i \in DOMAIN c.objects :
        HasAsset(c.objects[i], c.assets, c.id_key) =>
            c.id_key \notin DOMAIN c.assets[Str(c.objects[i][c.id_key])]

\* C37: when no asset found for an object holds the id field itself,
\* _add_assets applied to its own result (same assets, same id_key) succeeds
\* and gives that result again; and a result has as many objects as the
\* list given, each at the place of the object it was made from (it has
\* that object's id).
C37_MergeIdempotent ==
    \A p \in Procs :
        LET c == call[p] IN
        (c.op = "assets" /\ c.result = "ok" /\ NoIdInMatched(c)) =>
            /\ Len(c.merged) = Len(c.objects)
            /\ \A i \in DOMAIN c.objects :
                  c.merged[i][c.id_key] = c.objects[i][c.id_key]
            /\ c.again # "none" =>
                  (c.again = "ok" /\ c.merged_again = c.merged)

C37_Witness ==
    \E p \in Procs :
        /\ call[p].op = "assets" /\ call[p].result = "ok"
        /\ NoIdInMatched(call[p])
        /\ call[p].objects = << [car_id |-> 12, name |-> "n12"],
                                [car_id |-> 1, name |-> "n1"] >>
        /\ call[p].merged # call[p].objects
        /\ call[p].again = "ok" /\ call[p].merged_again = call[p].merged

\* an asset that holds the id field: the second call looks up another id
C37_NeedsNoIdInAsset ==
    \E p \in Procs :
        /\ call[p].op = "assets" /\ call[p].result = "ok"
        /\ ~NoIdInMatched(call[p])
        /\ call[p].again = "KeyError"

====
